---- MODULE Spec2Model ----
(***************************************************************************)
(* Model of the database API gateway (renoelis/database-Api):              *)
(*   - the quota ledger      (app/database/auth_operations.py)             *)
(*   - the token middleware  (app/auth/middleware.py)                      *)
(*   - the admission control (app/utils/concurrency.py, app/main.py)       *)
(*   - the pool registry     (app/utils/pool.py)                           *)
(* Each request / call is a process p \in Procs with a program counter.    *)
(***************************************************************************)
EXTENDS Integers, Sequences, FiniteSets, Bags, TLC

\* ------------------------------------------------------------------ bounds
NumRequests == 3            \* concurrent requests / ledger calls
NumTokens == 2              \* rows of api_tokens
MaxCalls == 2               \* largest remaining_calls / total_calls at start
NumGatewayRequests == 2     \* concurrent HTTP requests through the whole gateway

Procs == 1..NumRequests
TokenIds == 1..NumTokens
MissingTokenId == NumTokens + 1     \* a token_id with no row in api_tokens
NoProc == 0

\* --------------------------------------------------- SQL values and functions
\* A nullable INTEGER column is the empty set (NULL) or a singleton {n}.
Null == {}
Val(n) == {n}
IsNull(x) == x = {}
Get(x) == CHOOSE n \in x : TRUE

\* SQL "x - k": NULL in, NULL out.
SqlMinus(x, k) == {n - k : n \in x}

\* PostgreSQL GREATEST(x, y): NULL arguments are ignored; NULL only if all are.
Greatest(x, y) ==
    LET u == x \cup y
    IN  IF u = {} THEN {} ELSE {CHOOSE m \in u : \A n \in u : n <= m}

\* The SET clause of the consume UPDATE: GREATEST(remaining_calls - 1, 0).
DecrementByTwo(remaining_calls) == Greatest(SqlMinus(remaining_calls, 2), Val(0))
DecrementNoFloor(remaining_calls) == SqlMinus(remaining_calls, 1)
DecrementRemaining(remaining_calls) == Greatest(SqlMinus(remaining_calls, 1), Val(0))

\* The Python test that guards the UPDATE: token_type == "limited".
IsLimitedAlways(token_type) == TRUE
IsLimited(token_type) == token_type = "limited"

\* ------------------------------------------------------------------- state
VARIABLES
    api_tokens,         \* committed table api_tokens: token_id -> row
    token_usage_logs,   \* committed table token_usage_logs: a bag of rows (the
                        \* table up to the values of the surrogate key log_id)
    row_lock,           \* token_id -> process holding the row lock, or NoProc
    initial_tokens,     \* history: api_tokens as it was at the start
    pc,                 \* process -> position in its code
    usage,              \* process -> arguments and open transaction of its
                        \*            update_token_usage call
    result,             \* process -> value returned by update_token_usage
    req,                \* process -> its HTTP request (path, method, accessToken)
    token_info,         \* process -> token_info read by validate_auth_token
    response,           \* process -> the response (or exception) it ended with
    semaphores,         \* the three asyncio.Semaphore of ConcurrencyLimiterMiddleware
    current,            \* its counters current_*_requests
    pools,              \* PostgreSQLConnectionPool._pools: pool_key -> entry
    clients,            \* MongoDBConnectionPool._clients: client_key -> entry
    pool_lock,          \* holder of PostgreSQLConnectionPool._lock, MongoDBConnectionPool._lock
    next_pool_id,       \* identity of the next pool / client object created
    now,                \* time.time()
    lease,              \* process -> arguments and result of its get_connection / get_client
    sweeper,            \* family -> the state of its idle-cleanup thread
    token_op,           \* process -> arguments, transaction and result of its
                        \*            create_token / update_token call
    client,             \* a client that makes its calls one after the other: the
                        \* calls made so far and the answers it got
    retention           \* the cleanup_token_usage_logs calls in progress (process ->
                        \* transaction and result) and the daily schedule

ledger_vars == <<api_tokens, token_usage_logs, row_lock, initial_tokens>>
request_vars == <<req, token_info, response>>
admission_vars == <<semaphores, current>>
registry_vars == <<pools, clients, pool_lock, next_pool_id, now, lease, sweeper>>
vars == <<api_tokens, token_usage_logs, row_lock, initial_tokens,
          pc, usage, result, req, token_info, response, semaphores, current,
          pools, clients, pool_lock, next_pool_id, now, lease, sweeper, token_op,
          client, retention>>

\* Rows of api_tokens as create_auth_token writes them.
LimitedRow(id, remaining, total) ==
    [ws_id |-> id, access_token |-> id, token_type |-> "limited",
     remaining_calls |-> Val(remaining), total_calls |-> Val(total),
     is_active |-> TRUE]
UnlimitedRow(id) ==
    [ws_id |-> id, access_token |-> id, token_type |-> "unlimited",
     remaining_calls |-> Null, total_calls |-> Null, is_active |-> TRUE]
\* Tokens at the start: odd token_ids are limited tokens part-way through
\* their allowance, even token_ids are unlimited tokens.
TokenRows(id) ==
    IF id % 2 = 1 THEN {LimitedRow(id, r, MaxCalls) : r \in 0..MaxCalls}
    ELSE {UnlimitedRow(id)}

\* The open transaction of a call: nothing written yet. conn: whether the call
\* holds a connection checked out of the pool of the auth database ("leased")
\* or not ("none": not yet leased, or given back by release_connection).
NoWrite == [token |-> <<>>, log |-> <<>>]
UsageArgs(token_id, status) ==
    [token_id |-> token_id, ws_id |-> token_id, status |-> status,
     token_type |-> "", remaining_calls |-> Null, new_remaining |-> Null,
     txn_now |-> 0, write |-> NoWrite, conn |-> "none"]
NoUsage == UsageArgs(0, "")
\* On return the call's locals and its transaction are gone and its connection
\* is given back (finally: release_connection); its arguments stay on record.
Returned(u) == UsageArgs(u.token_id, u.status)

\* ------------------------------------------------------ transaction outcome
\* COMMIT: the transaction's writes become the committed tables.
CommitTokensAndTotal(tokens, write) ==
    IF write.token = <<>> THEN tokens
    ELSE [tokens EXCEPT ![write.token[1]].remaining_calls = write.token[2],
                        ![write.token[1]].total_calls = write.token[2]]
CommitTokens(tokens, write) ==
    IF write.token = <<>> THEN tokens
    ELSE [tokens EXCEPT ![write.token[1]].remaining_calls = write.token[2]]
CommitLogs(logs, write) ==
    IF write.log = <<>> THEN logs ELSE logs (+) SetToBag({write.log[1]})

\* ROLLBACK: the transaction's writes are discarded.
RollbackKeepsTokens(tokens, write) == CommitTokens(tokens, write)
RollbackTokens(tokens, write) == tokens
RollbackLogs(logs, write) == logs

\* A statement that locks the row of token id (SELECT ... FOR UPDATE, UPDATE)
\* waits while another transaction holds that lock.
RowLockIgnored(locks, id) == TRUE
RowLockFree(locks, id) == locks[id] = NoProc

ReleaseRowLock(p) == [t \in DOMAIN row_lock |-> IF row_lock[t] = p THEN NoProc ELSE row_lock[t]]

\* ------------------------------------------- update_token_usage (consume)
\* get_connection for the auth database: a connection, or an error.
update_token_usage_connect(p) ==
    /\ pc[p] = "usage_call"
    /\ \/ /\ pc' = [pc EXCEPT ![p] = "usage_select"]
          /\ usage' = [usage EXCEPT ![p].conn = "leased"]
          /\ UNCHANGED result
       \/ /\ pc' = [pc EXCEPT ![p] = "usage_returned"]
          /\ result' = [result EXCEPT ![p] = FALSE]
          /\ UNCHANGED usage
    /\ UNCHANGED ledger_vars
    /\ UNCHANGED <<request_vars, admission_vars, registry_vars>>
    /\ UNCHANGED <<token_op, client, retention>>

\* SELECT token_type, remaining_calls ... WHERE token_id = %s FOR UPDATE
update_token_usage_select(p) ==
    /\ pc[p] = "usage_select"
    /\ LET id == usage[p].token_id IN
       IF id \notin DOMAIN api_tokens
       THEN \* no row: rollback, return False (finally: release_connection)
            /\ pc' = [pc EXCEPT ![p] = "usage_returned"]
            /\ result' = [result EXCEPT ![p] = FALSE]
            /\ usage' = [usage EXCEPT ![p].conn = "none"]
            /\ UNCHANGED ledger_vars
       ELSE \* waits until the row lock is free, then holds it
            /\ RowLockFree(row_lock, id)
            /\ row_lock' = [row_lock EXCEPT ![id] = p]
            /\ usage' = [usage EXCEPT ![p].token_type = api_tokens[id].token_type,
                                      ![p].remaining_calls = api_tokens[id].remaining_calls,
                                      ![p].new_remaining = api_tokens[id].remaining_calls,
                                      ![p].txn_now = now]
            /\ pc' = [pc EXCEPT ![p] = "usage_update"]
            /\ UNCHANGED <<api_tokens, token_usage_logs, initial_tokens, result>>
    /\ UNCHANGED <<request_vars, admission_vars, registry_vars>>
    /\ UNCHANGED <<token_op, client, retention>>

\* if token_type == "limited": UPDATE ... SET remaining_calls = GREATEST(remaining_calls - 1, 0)
update_token_usage_update(p) ==
    /\ pc[p] = "usage_update"
    /\ LET id == usage[p].token_id IN
       IF IsLimited(usage[p].token_type)
       THEN LET new == DecrementRemaining(api_tokens[id].remaining_calls) IN
            usage' = [usage EXCEPT ![p].new_remaining = new,
                                   ![p].write.token = <<id, new>>]
       ELSE UNCHANGED usage
    /\ pc' = [pc EXCEPT ![p] = "usage_insert"]
    /\ UNCHANGED <<ledger_vars, result>>
    /\ UNCHANGED <<request_vars, admission_vars, registry_vars>>
    /\ UNCHANGED <<token_op, client, retention>>

\* A row of token_usage_logs; created_at defaults to CURRENT_TIMESTAMP, the
\* time at which the inserting transaction began.
LogRow(token_id, ws_id, status, created_at) ==
    [token_id |-> token_id, ws_id |-> ws_id, status |-> status, created_at |-> created_at]

\* INSERT INTO token_usage_logs ... RETURNING log_id
update_token_usage_insert(p) ==
    /\ pc[p] = "usage_insert"
    /\ usage' = [usage EXCEPT ![p].write.log =
                    <<LogRow(usage[p].token_id, usage[p].ws_id, usage[p].status,
                             usage[p].txn_now)>>]
    /\ pc' = [pc EXCEPT ![p] = "usage_commit"]
    /\ UNCHANGED <<ledger_vars, result>>
    /\ UNCHANGED <<request_vars, admission_vars, registry_vars>>
    /\ UNCHANGED <<token_op, client, retention>>

\* conn.commit(); return True
update_token_usage_commit(p) ==
    /\ pc[p] = "usage_commit"
    /\ api_tokens' = CommitTokens(api_tokens, usage[p].write)
    /\ token_usage_logs' = CommitLogs(token_usage_logs, usage[p].write)
    /\ row_lock' = ReleaseRowLock(p)
    /\ usage' = [usage EXCEPT ![p] = Returned(usage[p])]
    /\ result' = [result EXCEPT ![p] = TRUE]
    /\ pc' = [pc EXCEPT ![p] = "usage_returned"]
    /\ UNCHANGED initial_tokens
    /\ UNCHANGED <<request_vars, admission_vars, registry_vars>>
    /\ UNCHANGED <<token_op, client, retention>>

\* except Exception: conn.rollback(); return False
\* (the SELECT, the UPDATE, the INSERT or the COMMIT raised)
update_token_usage_fail(p) ==
    /\ pc[p] \in {"usage_select", "usage_update", "usage_insert", "usage_commit"}
    /\ api_tokens' = RollbackTokens(api_tokens, usage[p].write)
    /\ token_usage_logs' = RollbackLogs(token_usage_logs, usage[p].write)
    /\ row_lock' = ReleaseRowLock(p)
    /\ usage' = [usage EXCEPT ![p] = Returned(usage[p])]
    /\ result' = [result EXCEPT ![p] = FALSE]
    /\ pc' = [pc EXCEPT ![p] = "usage_returned"]
    /\ UNCHANGED initial_tokens
    /\ UNCHANGED <<request_vars, admission_vars, registry_vars>>
    /\ UNCHANGED <<token_op, client, retention>>

update_token_usage(p) ==
    \/ update_token_usage_connect(p)
    \/ update_token_usage_select(p)
    \/ update_token_usage_update(p)
    \/ update_token_usage_insert(p)
    \/ update_token_usage_commit(p)
    \/ update_token_usage_fail(p)

\* ------------------------------------------ create_token and update_token
\* Python's "not x" for an Optional[int]: None and 0 are false.
Truthy(x) == ~IsNull(x) /\ Get(x) # 0
\* COALESCE(x, d)
CoalesceKeepsNull(x, d) == x
Coalesce(x, d) == IF IsNull(x) THEN Val(d) ELSE x
SqlPlus(x, k) == {n + k : n \in x}

\* A call of create_token (ws_id, token_type, total_calls) or of update_token
\* (ws_id, operation, calls_value): its arguments, the row it addresses, its
\* uncommitted write, the errCode it returned ("ok" for success) and the
\* exception behind an errCode 9999 (the response carries its text).
TokenOp(op, ws_id, token_type, total_calls, operation, calls_value) ==
    [op |-> op, ws_id |-> ws_id, token_type |-> token_type, total_calls |-> total_calls,
     operation |-> operation, calls_value |-> calls_value,
     token_id |-> 0, write |-> <<>>, code |-> "", raised |-> "", conn |-> "none"]
CreateArgs(ws_id, token_type, total_calls) ==
    TokenOp("create", ws_id, token_type, total_calls, "", Null)
UpdateArgs(ws_id, operation, calls_value) ==
    TokenOp("update", ws_id, "", Null, operation, calls_value)
NoOp == TokenOp("", 0, "", Null, "", Null)

\* SELECT * FROM api_tokens WHERE ws_id = %s (the committed rows)
RowsOfWs(tokens, ws_id) == {id \in DOMAIN tokens : tokens[id].ws_id = ws_id}

OpReturn(p, stage, code) ==
    /\ token_op' = [token_op EXCEPT ![p].code = code, ![p].write = <<>>]
    /\ pc' = [pc EXCEPT ![p] = stage]

\* postgresql_pool.release_connection(..., conn=conn), then return
OpReleaseReturn(p, stage, code) ==
    /\ token_op' = [token_op EXCEPT ![p].code = code, ![p].write = <<>>,
                                    ![p].conn = "none"]
    /\ pc' = [pc EXCEPT ![p] = stage]

\* except Exception as e: return error_response(9999, ... str(e))
OpRaise(p, stage, exception) ==
    /\ token_op' = [token_op EXCEPT ![p].code = "9999", ![p].raised = exception,
                                    ![p].write = <<>>]
    /\ pc' = [pc EXCEPT ![p] = stage]

\* ws_id VARCHAR(50) NOT NULL UNIQUE: a committed row with this ws_id makes an
\* INSERT fail.
NoUniqueConstraint(tokens, ws_id) == FALSE
UniqueViolation(tokens, ws_id) == RowsOfWs(tokens, ws_id) # {}

\* The row create_token inserts: the counters are total_calls as given, or
\* NULL for an unlimited token.
NewRow(ws_id, token_type, total_calls) ==
    LET is_unlimited == token_type = "unlimited"
    IN  [ws_id |-> ws_id, access_token |-> 0, token_type |-> token_type,
         remaining_calls |-> IF is_unlimited THEN Null ELSE total_calls,
         total_calls |-> IF is_unlimited THEN Null ELSE total_calls,
         is_active |-> TRUE]

\* get_connection for the auth database: a connection, or errCode 1000
create_token_connect(p) ==
    /\ pc[p] = "create_call"
    /\ \/ /\ pc' = [pc EXCEPT ![p] = "create_select"]
          /\ token_op' = [token_op EXCEPT ![p].conn = "leased"]
       \/ OpReturn(p, "create_returned", "1000")
    /\ UNCHANGED <<ledger_vars, usage, result, request_vars, admission_vars, registry_vars>>
    /\ UNCHANGED <<client, retention>>

\* SELECT ... WHERE ws_id: a row exists -> errCode 1050
create_token_select(p) ==
    /\ pc[p] = "create_select"
    /\ IF RowsOfWs(api_tokens, token_op[p].ws_id) # {}
       THEN OpReleaseReturn(p, "create_returned", "1050")
       ELSE pc' = [pc EXCEPT ![p] = "create_insert"] /\ UNCHANGED token_op
    /\ UNCHANGED <<ledger_vars, usage, result, request_vars, admission_vars, registry_vars>>
    /\ UNCHANGED <<client, retention>>

\* Another transaction has inserted the same ws_id and not yet committed: the
\* INSERT waits for it (unique index on ws_id).
PendingInsert(p, ws_id) ==
    \E q \in Procs : q # p /\ pc[q] = "create_commit" /\ token_op[q].ws_id = ws_id

\* INSERT INTO api_tokens ... RETURNING token_id: a committed row with the same
\* ws_id is a unique violation, which the handler's "except Exception" turns
\* into errCode 9999
create_token_insert(p) ==
    /\ pc[p] = "create_insert"
    /\ IF UniqueViolation(api_tokens, token_op[p].ws_id)
       THEN OpRaise(p, "create_returned", "UniqueViolation")
       ELSE /\ ~PendingInsert(p, token_op[p].ws_id)
            /\ token_op' = [token_op EXCEPT ![p].write =
                              <<NewRow(token_op[p].ws_id, token_op[p].token_type,
                                       token_op[p].total_calls)>>]
            /\ pc' = [pc EXCEPT ![p] = "create_commit"]
    /\ UNCHANGED <<ledger_vars, usage, result, request_vars, admission_vars, registry_vars>>
    /\ UNCHANGED <<client, retention>>

\* conn.commit(): the row is in the table (token_id from the sequence, the
\* generated access_token distinct from every other)
create_token_commit(p) ==
    /\ pc[p] = "create_commit"
    /\ LET id == Len(api_tokens) + 1
       IN  /\ api_tokens' = Append(api_tokens, [token_op[p].write[1] EXCEPT !.access_token = id])
           /\ row_lock' = Append(row_lock, NoProc)
           /\ token_op' = [token_op EXCEPT ![p].code = "ok", ![p].token_id = id,
                                           ![p].write = <<>>, ![p].conn = "none"]
    /\ pc' = [pc EXCEPT ![p] = "create_returned"]
    /\ UNCHANGED <<token_usage_logs, initial_tokens, usage, result, request_vars,
                   admission_vars, registry_vars>>
    /\ UNCHANGED <<client, retention>>

\* except Exception: errCode 9999 (the SELECT, the INSERT or the COMMIT raised)
create_token_fail(p) ==
    /\ pc[p] \in {"create_select", "create_insert", "create_commit"}
    /\ OpRaise(p, "create_returned", "OperationalError")
    /\ UNCHANGED <<ledger_vars, usage, result, request_vars, admission_vars, registry_vars>>
    /\ UNCHANGED <<client, retention>>

create_token(p) ==
    \/ create_token_connect(p)
    \/ create_token_select(p)
    \/ create_token_insert(p)
    \/ create_token_commit(p)
    \/ create_token_fail(p)

\* The checks of calls_value: "not calls_value or calls_value <= 0" for add,
\* "not calls_value or calls_value < 0" for set.
ValidUpdateAnyValue(operation, calls_value) ==
    CASE operation = "unlimited" -> TRUE
      [] operation = "add" -> ~IsNull(calls_value)
      [] operation = "set" -> ~IsNull(calls_value)
      [] OTHER -> FALSE
ValidUpdate(operation, calls_value) ==
    CASE operation = "unlimited" -> TRUE
      [] operation = "add" -> ~(~Truthy(calls_value) \/ Get(calls_value) <= 0)
      [] operation = "set" -> ~(~Truthy(calls_value) \/ Get(calls_value) < 0)
      [] OTHER -> FALSE

\* The row after UPDATE api_tokens SET ... for each operation.
UpdatedRowAddRemainingOnly(row, operation, calls_value) ==
    CASE operation = "unlimited" ->
            [row EXCEPT !.token_type = "unlimited", !.remaining_calls = Null,
                        !.total_calls = Null]
      [] operation = "add" ->
            [row EXCEPT !.token_type = "limited",
                        !.remaining_calls = SqlPlus(Coalesce(@, 0), Get(calls_value))]
      [] operation = "set" ->
            [row EXCEPT !.token_type = "limited", !.remaining_calls = calls_value,
                        !.total_calls = calls_value]
UpdatedRow(row, operation, calls_value) ==
    CASE operation = "unlimited" ->
            [row EXCEPT !.token_type = "unlimited", !.remaining_calls = Null,
                        !.total_calls = Null]
      [] operation = "add" ->
            [row EXCEPT !.token_type = "limited",
                        !.remaining_calls = SqlPlus(Coalesce(@, 0), Get(calls_value)),
                        !.total_calls = SqlPlus(Coalesce(@, 0), Get(calls_value))]
      [] operation = "set" ->
            [row EXCEPT !.token_type = "limited", !.remaining_calls = calls_value,
                        !.total_calls = calls_value]

update_token_connect(p) ==
    /\ pc[p] = "update_call"
    /\ \/ /\ pc' = [pc EXCEPT ![p] = "update_select"]
          /\ token_op' = [token_op EXCEPT ![p].conn = "leased"]
       \/ OpReturn(p, "update_returned", "1000")
    /\ UNCHANGED <<ledger_vars, usage, result, request_vars, admission_vars, registry_vars>>
    /\ UNCHANGED <<client, retention>>

\* SELECT ... WHERE ws_id: no row -> errCode 1051
update_token_select(p) ==
    /\ pc[p] = "update_select"
    /\ IF RowsOfWs(api_tokens, token_op[p].ws_id) = {}
       THEN OpReleaseReturn(p, "update_returned", "1051")
       ELSE pc' = [pc EXCEPT ![p] = "update_execute"] /\ UNCHANGED token_op
    /\ UNCHANGED <<ledger_vars, usage, result, request_vars, admission_vars, registry_vars>>
    /\ UNCHANGED <<client, retention>>

\* the branch on operation: errCode 1400 for a rejected calls_value or an
\* unknown operation, else UPDATE ... WHERE ws_id RETURNING ..., which waits for
\* the row lock and writes from the row as committed then
update_token_execute(p) ==
    /\ pc[p] = "update_execute"
    /\ IF ~ValidUpdate(token_op[p].operation, token_op[p].calls_value)
       THEN OpReturn(p, "update_returned", "1400") /\ UNCHANGED row_lock
       ELSE LET id == CHOOSE t \in RowsOfWs(api_tokens, token_op[p].ws_id) : TRUE
            IN  /\ RowLockFree(row_lock, id)
                /\ row_lock' = [row_lock EXCEPT ![id] = p]
                /\ token_op' = [token_op EXCEPT
                      ![p].token_id = id,
                      ![p].write = <<UpdatedRow(api_tokens[id], token_op[p].operation,
                                                token_op[p].calls_value)>>]
                /\ pc' = [pc EXCEPT ![p] = "update_commit"]
    /\ UNCHANGED <<api_tokens, token_usage_logs, initial_tokens, usage, result,
                   request_vars, admission_vars, registry_vars>>
    /\ UNCHANGED <<client, retention>>

\* conn.commit()
update_token_commit(p) ==
    /\ pc[p] = "update_commit"
    /\ api_tokens' = [api_tokens EXCEPT ![token_op[p].token_id] = token_op[p].write[1]]
    /\ row_lock' = ReleaseRowLock(p)
    /\ OpReleaseReturn(p, "update_returned", "ok")
    /\ UNCHANGED <<token_usage_logs, initial_tokens, usage, result, request_vars,
                   admission_vars, registry_vars>>
    /\ UNCHANGED <<client, retention>>

\* except Exception: errCode 9999 (the SELECT, the UPDATE or the COMMIT raised)
update_token_fail(p) ==
    /\ pc[p] \in {"update_select", "update_execute", "update_commit"}
    /\ row_lock' = ReleaseRowLock(p)
    /\ OpRaise(p, "update_returned", "OperationalError")
    /\ UNCHANGED <<api_tokens, token_usage_logs, initial_tokens, usage, result,
                   request_vars, admission_vars, registry_vars>>
    /\ UNCHANGED <<client, retention>>

update_token(p) ==
    \/ update_token_connect(p)
    \/ update_token_select(p)
    \/ update_token_execute(p)
    \/ update_token_commit(p)
    \/ update_token_fail(p)

InitNoTokenOps == token_op = [p \in Procs |-> NoOp]

\* The sequential client: how many calls of its scenario it has sent, how it
\* sends its read-only call, and the answer to each call it has finished (the
\* errCode or outcome, and whether update_token_usage returned True for it).
ClientAt(step, read_by) == [step |-> step, read_by |-> read_by, answers |-> <<>>]
NoClient == ClientAt(0, "")
InitNoClient == client = NoClient

\* cleanup_token_usage_logs: a call's caller, the time its transaction began,
\* the COUNT(*) it read and how it ended ("" while it runs); the schedule.
NoCleanup == [txn_now |-> 0, count |-> 0, deleted |-> EmptyBag, outcome |-> ""]
NoSchedule == [pc |-> "off", next_run |-> 0, last_run |-> -1, failed |-> 0]
InitNoRetention ==
    retention = [calls |-> [p \in Procs |-> NoCleanup], schedule |-> NoSchedule, triggers |-> 0]

\* ------------------------------------------------------------ HTTP requests
\* A path is its sequence of segments: "/apiDatabase/postgresql" is
\* <<"apiDatabase", "postgresql">> and "/" is <<>>.
PathPostgresql == <<"apiDatabase", "postgresql">>
PathMongodb == <<"apiDatabase", "mongodb">>
PathAuthToken == <<"apiDatabase", "auth", "token">>

NoAccessToken == 0
NoInfo == [token_id |-> 0]
Request(path, method, access_token) ==
    [path |-> path, method |-> method, access_token |-> access_token]
NoRequest == Request(<<>>, "", NoAccessToken)

IsPrefix(s, t) == Len(s) <= Len(t) /\ SubSeq(t, 1, Len(s)) = s

\* exclude_paths of TokenAuthMiddleware.dispatch
exclude_paths ==
    { <<"apiDatabase", "auth", "token">>, <<"apiDatabase", "auth", "token", "update">>,
      <<"apiDatabase", "auth", "token", "info">>, <<"apiDatabase", "auth", "logs", "cleanup">>,
      <<>>, <<"docs">>, <<"openapi.json">>, <<"redoc">> }

\* path == excluded or (excluded != "/" and path.startswith(excluded + "/"))
IsExcluded(path) ==
    \E excluded \in exclude_paths :
        path = excluded \/ (excluded # <<>> /\ IsPrefix(excluded, path) /\ path # excluded)

\* request.method in ["POST", "PUT", "PATCH", "DELETE"]
is_write_operation(method) == method \in {"POST", "PUT", "PATCH", "DELETE"}

\* ------------------------------------------------- ConcurrencyLimiterMiddleware
MaxConcurrentRequests == 2      \* max_concurrent_requests
PostgresqlMaxConcurrent == 1    \* postgresql_max_concurrent
MongodbMaxConcurrent == 1       \* mongodb_max_concurrent

Limiters == {"semaphore", "postgresql_semaphore", "mongodb_semaphore"}
CapOf(name) ==
    CASE name = "postgresql_semaphore" -> PostgresqlMaxConcurrent
      [] name = "mongodb_semaphore" -> MongodbMaxConcurrent
      [] OTHER -> MaxConcurrentRequests

\* asyncio.Semaphore(value): the counter, the FIFO of waiting futures, and the
\* waiters whose future has been given its result but which have not resumed.
Semaphore(value) == [value |-> value, waiters |-> <<>>, woken |-> {}]

\* if "/postgresql" in path ... elif "/mongodb" in path ... else
LimiterAlwaysGeneral(path) == "semaphore"
LimiterOf(path) ==
    IF \E i \in 1..Len(path) : path[i] = "postgresql" THEN "postgresql_semaphore"
    ELSE IF \E i \in 1..Len(path) : path[i] = "mongodb" THEN "mongodb_semaphore"
    ELSE "semaphore"

\* Semaphore.locked()
Locked(s) == s.value = 0 \/ Len(s.waiters) > 0

\* Semaphore._wake_up_next(): the first waiter that is not done gets the permit.
WakeUpNext(s) ==
    LET pending == {i \in 1..Len(s.waiters) : s.waiters[i] \notin s.woken}
    IN  IF pending = {} THEN s
        ELSE LET i == CHOOSE j \in pending : \A k \in pending : j <= k
             IN  [s EXCEPT !.value = @ - 1, !.woken = @ \cup {s.waiters[i]}]

\* Semaphore.release()
Release(s) == WakeUpNext([s EXCEPT !.value = @ + 1])

RemoveWaiter(s, p) ==
    [s EXCEPT !.waiters = SelectSeq(@, LAMBDA q : q # p), !.woken = @ \ {p}]

\* Semaphore.acquire() cancelled at "await fut": the future is removed; a permit
\* already handed to it (fut done, not cancelled) is given back.
CancelWaiterReleases(s, p) == Release(RemoveWaiter(s, p))
CancelWaiter(s, p) ==
    IF p \in s.woken THEN Release(RemoveWaiter(s, p)) ELSE RemoveWaiter(s, p)

\* "async with semaphore": __aexit__ releases however the body ended.
Outcomes == {"ok", "error_envelope", "status_422", "exception", "cancelled"}

\* The routes registered: the two backend endpoints and the token endpoints
\* (POST only, but GET for /auth/token/info), and GET /.
PathAuthTokenUpdate == <<"apiDatabase", "auth", "token", "update">>
PathAuthTokenInfo == <<"apiDatabase", "auth", "token", "info">>
Routes ==
    { <<PathPostgresql, "POST">>, <<PathMongodb, "POST">>, <<PathAuthToken, "POST">>,
      <<PathAuthTokenUpdate, "POST">>, <<PathAuthTokenInfo, "GET">>, <<<<>>, "GET">> }

\* How call_next can end for a request: the endpoint's outcomes when a route
\* matches path and method, 405 from the router when only the path matches,
\* 404 when nothing matches; a cancellation at any time.
HandlerOutcomes(request) ==
    IF <<request.path, request.method>> \in Routes THEN Outcomes
    ELSE IF \E route \in Routes : route[1] = request.path THEN {"status_405", "cancelled"}
    ELSE {"status_404", "cancelled"}
ExitReleaseOnlyOnReturn(s, outcome) ==
    IF outcome \in {"exception", "cancelled"} THEN s ELSE Release(s)
ExitRelease(s, outcome) == Release(s)

\* dispatch: "async with semaphore" entered
limiter_acquire(p) ==
    /\ pc[p] = "limiter"
    /\ LET name == LimiterOf(req[p].path)
           s == semaphores[name]
       IN  IF ~Locked(s)
           THEN /\ semaphores' = [semaphores EXCEPT ![name].value = @ - 1]
                /\ current' = [current EXCEPT ![name] = @ + 1]
                /\ pc' = [pc EXCEPT ![p] = "handler"]
           ELSE /\ semaphores' = [semaphores EXCEPT ![name].waiters = Append(@, p)]
                /\ pc' = [pc EXCEPT ![p] = "waiting"]
                /\ UNCHANGED current
    /\ UNCHANGED <<registry_vars, ledger_vars, usage, result, request_vars>>
    /\ UNCHANGED <<token_op, client, retention>>

\* acquire() resumes after its future was given the permit
limiter_resume(p) ==
    /\ pc[p] = "waiting"
    /\ LET name == LimiterOf(req[p].path)
           s == semaphores[name]
           t == RemoveWaiter(s, p)
       IN  /\ p \in s.woken
           /\ semaphores' = [semaphores EXCEPT
                                ![name] = IF t.value > 0 THEN WakeUpNext(t) ELSE t]
           /\ current' = [current EXCEPT ![name] = @ + 1]
    /\ pc' = [pc EXCEPT ![p] = "handler"]
    /\ UNCHANGED <<registry_vars, ledger_vars, usage, result, request_vars>>
    /\ UNCHANGED <<token_op, client, retention>>

\* the request is cancelled while it waits in acquire()
limiter_cancel_waiting(p) ==
    /\ pc[p] = "waiting"
    /\ LET name == LimiterOf(req[p].path)
       IN  semaphores' = [semaphores EXCEPT ![name] = CancelWaiter(semaphores[name], p)]
    /\ response' = [response EXCEPT ![p] = "cancelled"]
    /\ pc' = [pc EXCEPT ![p] = "done"]
    /\ UNCHANGED <<registry_vars, ledger_vars, usage, result, req, token_info, current>>
    /\ UNCHANGED <<token_op, client, retention>>

\* call_next(request) ends (a response, an exception or a cancellation); the
\* finally clause and __aexit__ run
limiter_exit(p) ==
    /\ pc[p] = "handler"
    /\ \E outcome \in HandlerOutcomes(req[p]) :
         LET name == LimiterOf(req[p].path)
         IN  /\ semaphores' = [semaphores EXCEPT
                                  ![name] = ExitRelease(semaphores[name], outcome)]
             /\ current' = [current EXCEPT ![name] = @ - 1]
             /\ response' = [response EXCEPT ![p] = outcome]
    /\ pc' = [pc EXCEPT ![p] = "after_call_next"]
    /\ UNCHANGED <<registry_vars, ledger_vars, usage, result, req, token_info>>
    /\ UNCHANGED <<token_op, client, retention>>

\* ----------------------------------------------------- TokenAuthMiddleware
\* validate_auth_token: SELECT * FROM api_tokens WHERE access_token = %s AND is_active
ValidTokensIgnoringActive(tokens, access_token) ==
    {id \in DOMAIN tokens : tokens[id].access_token = access_token}
ValidTokens(tokens, access_token) ==
    {id \in DOMAIN tokens : tokens[id].access_token = access_token /\ tokens[id].is_active}
InfoOf(tokens, id) ==
    [token_id |-> id, ws_id |-> tokens[id].ws_id, token_type |-> tokens[id].token_type,
     remaining_calls |-> tokens[id].remaining_calls]

\* token_info["remaining_calls"] <= 0
ExhaustedOnlyBelowZero(remaining_calls) == Get(remaining_calls) < 0
Exhausted(remaining_calls) == Get(remaining_calls) <= 0

Reject(p, code) ==
    /\ response' = [response EXCEPT ![p] = code]
    /\ pc' = [pc EXCEPT ![p] = "done"]

\* dispatch up to "response = await call_next(request)"
token_auth_dispatch(p) ==
    /\ pc[p] = "start"
    /\ IF IsExcluded(req[p].path)
       THEN /\ pc' = [pc EXCEPT ![p] = "limiter"]
            /\ UNCHANGED <<token_info, response>>
       ELSE IF req[p].access_token = NoAccessToken
       THEN Reject(p, "1401") /\ UNCHANGED token_info
       ELSE \/ \* validate_auth_token: no connection, or an exception
               Reject(p, "1402") /\ UNCHANGED token_info
            \/ LET found == ValidTokens(api_tokens, req[p].access_token) IN
               IF found = {}
               THEN Reject(p, "1402") /\ UNCHANGED token_info
               ELSE LET info == InfoOf(api_tokens, CHOOSE id \in found : TRUE) IN
                    /\ token_info' = [token_info EXCEPT ![p] = info]
                    /\ IF is_write_operation(req[p].method) /\ info.token_type = "limited"
                       THEN IF IsNull(info.remaining_calls)
                            THEN Reject(p, "exception")     \* None <= 0: TypeError
                            ELSE IF Exhausted(info.remaining_calls)
                            THEN Reject(p, "1403")
                            ELSE /\ pc' = [pc EXCEPT ![p] = "limiter"]
                                 /\ UNCHANGED response
                       ELSE /\ pc' = [pc EXCEPT ![p] = "limiter"]
                            /\ UNCHANGED response
    /\ UNCHANGED <<registry_vars, ledger_vars, usage, result, req, admission_vars>>
    /\ UNCHANGED <<token_op, client, retention>>

\* status = "success" if response.status_code < 400 else "error"
StatusCode(outcome) ==
    CASE outcome = "status_422" -> 422
      [] outcome = "status_405" -> 405
      [] outcome = "status_404" -> 404
      [] OTHER -> 200
StatusOf(outcome) == IF StatusCode(outcome) < 400 THEN "success" ELSE "error"

\* dispatch after call_next: an exception or cancellation propagates; a
\* response of a validated write request is followed by _update_token_usage
token_auth_after(p) ==
    /\ pc[p] = "after_call_next"
    /\ IF /\ response[p] \notin {"exception", "cancelled"}
          /\ ~IsExcluded(req[p].path)
          /\ is_write_operation(req[p].method)
       THEN /\ usage' = [usage EXCEPT
                            ![p] = UsageArgs(token_info[p].token_id, StatusOf(response[p]))]
            /\ pc' = [pc EXCEPT ![p] = "usage_call"]
       ELSE /\ pc' = [pc EXCEPT ![p] = "done"]
            /\ UNCHANGED usage
    /\ UNCHANGED <<registry_vars, ledger_vars, result, request_vars, admission_vars>>
    /\ UNCHANGED <<token_op, client, retention>>

\* dispatch after _update_token_usage: "if not success: logger.error(...)",
\* then "return response"
ReturnedResponseFailsWithUsage(response_, success) ==
    IF success THEN response_ ELSE "exception"
ReturnedResponse(response_, success) == response_

token_auth_return(p) ==
    /\ pc[p] = "usage_returned"
    /\ req[p] # NoRequest
    /\ response' = [response EXCEPT ![p] = ReturnedResponse(response[p], result[p])]
    /\ pc' = [pc EXCEPT ![p] = "done"]
    /\ UNCHANGED <<registry_vars, ledger_vars, usage, result, req, token_info,
                   admission_vars>>
    /\ UNCHANGED <<token_op, client, retention>>

\* ------------------------------------------------------------ pool registry
\* Strings are sequences of characters, so that a key is the text the code
\* formats.
Join3(a, b, c) == a \o <<":">> \o b \o <<":">> \o c
Identity(host, port, database, user, password) ==
    [host |-> host, port |-> port, database |-> database, user |-> user,
     password |-> password]

\* pool_key = f"{host}:{port}:{database}:{user}"
pool_key(id) == Join3(id.host, id.port, id.database) \o <<":">> \o id.user

\* client_key = f"{host}:{port}:{database}", plus f":{username}" if username and password
client_key(id) ==
    IF id.user # <<>> /\ id.password # <<>>
    THEN Join3(id.host, id.port, id.database) \o <<":">> \o id.user
    ELSE Join3(id.host, id.port, id.database)

KeyOf(family, id) == IF family = "postgresql" THEN pool_key(id) ELSE client_key(id)

PoolMaxConn == 30       \* maxconn of ThreadedConnectionPool

\* A lease: the arguments, the connection (client) handed out, and what has
\* become of that connection: "none", "leased", "returned" (putconn),
\* "closed_by_release" (conn.close() in release_connection) or "closed_by_sweep"
\* (closeall() / client.close() in the cleanup thread).
NoConn == [pool_id |-> 0]
Lease(family, id) ==
    [family |-> family, id |-> id, conn |-> NoConn, error |-> FALSE, conn_state |-> "none"]
NoLease == Lease("", Identity(<<>>, <<>>, <<>>, <<>>, <<>>))

\* The registry of a family, and the same registry with one entry changed.
Registry(family) == IF family = "postgresql" THEN pools ELSE clients
Entry(pool_id, id, time) ==
    [pool_id |-> pool_id, created_for |-> id, last_used |-> time, used |-> 0,
     closed |-> FALSE]
WithEntry(registry, key, entry) ==
    [k \in DOMAIN registry \cup {key} |-> IF k = key THEN entry ELSE registry[k]]
SetRegistry(family, registry) ==
    IF family = "postgresql"
    THEN pools' = registry /\ UNCHANGED clients
    ELSE clients' = registry /\ UNCHANGED pools

LeaseReturn(p, conn, error) ==
    /\ lease' = [lease EXCEPT ![p].conn = conn, ![p].error = error,
                              ![p].conn_state = IF error THEN "none" ELSE "leased"]
    /\ pc' = [pc EXCEPT ![p] = IF error THEN "pool_failed" ELSE "pool_leased"]

\* An exception leaves get_connection / get_client (nothing is returned).
LeaseRaise(p) ==
    /\ pc' = [pc EXCEPT ![p] = "pool_raised"]
    /\ UNCHANGED lease

\* get_connection / get_client: "if key not in self._pools" (no lock held)
get_connection_check(p) ==
    /\ pc[p] = "pool_call"
    /\ pc' = [pc EXCEPT ![p] =
                IF KeyOf(lease[p].family, lease[p].id) \in DOMAIN Registry(lease[p].family)
                THEN "pool_touch" ELSE "pool_lock"]
    /\ UNCHANGED <<ledger_vars, usage, result, request_vars, admission_vars, registry_vars>>
    /\ UNCHANGED <<token_op, client, retention>>

\* "with self._lock:"
get_connection_lock(p) ==
    /\ pc[p] = "pool_lock"
    /\ pool_lock[lease[p].family] = NoProc
    /\ pool_lock' = [pool_lock EXCEPT ![lease[p].family] = p]
    /\ pc' = [pc EXCEPT ![p] = "pool_create"]
    /\ UNCHANGED <<ledger_vars, usage, result, request_vars, admission_vars,
                   pools, clients, next_pool_id, now, lease, sweeper>>
    /\ UNCHANGED <<token_op, client, retention>>

\* The registry after a creation that raised: the entry is assigned only after
\* the pool (client) has been created and, for MongoDB, pinged.
FailedCreationCached(registry, key, id) ==
    WithEntry(registry, key, [Entry(0, id, 0) EXCEPT !.closed = TRUE])
FailedCreation(registry, key, id) == registry

\* the second "if key not in self._pools", under the lock
NoRecheckUnderLock(registry, key) == FALSE
RecheckUnderLock(registry, key) == key \in DOMAIN registry

\* under the lock: the second "if key not in self._pools", the creation of the
\* pool (client) with the caller's credentials, the new entry; the lock is
\* released on the way out
get_connection_create(p) ==
    /\ pc[p] = "pool_create"
    /\ pool_lock' = [pool_lock EXCEPT ![lease[p].family] = NoProc]
    /\ LET family == lease[p].family
           key == KeyOf(family, lease[p].id)
       IN  IF RecheckUnderLock(Registry(family), key)
           THEN /\ pc' = [pc EXCEPT ![p] = "pool_touch"]
                /\ UNCHANGED <<pools, clients, next_pool_id, lease>>
           ELSE \/ \* the pool is created
                   /\ SetRegistry(family, WithEntry(Registry(family), key,
                                     Entry(next_pool_id, lease[p].id, now)))
                   /\ next_pool_id' = next_pool_id + 1
                   /\ pc' = [pc EXCEPT ![p] = "pool_touch"]
                   /\ UNCHANGED lease
                \/ \* the creation raises: return None, str(e)
                   /\ SetRegistry(family, FailedCreation(Registry(family), key, lease[p].id))
                   /\ LeaseReturn(p, NoConn, TRUE)
                   /\ UNCHANGED next_pool_id
    /\ UNCHANGED <<ledger_vars, usage, result, request_vars, admission_vars, now, sweeper>>
    /\ UNCHANGED <<token_op, client, retention>>

\* self._pools[key]["last_used"] = time.time() (a KeyError leaves the function
\* when the sweep has removed the key), then for PostgreSQL pool.getconn(): a
\* connection, or an error when the pool is closed, when all maxconn are out or
\* when a new connection cannot be opened; for MongoDB the shared client.
get_connection_lease(p) ==
    /\ pc[p] = "pool_touch"
    /\ LET family == lease[p].family
           key == KeyOf(family, lease[p].id)
           registry == Registry(family)
       IN  IF key \notin DOMAIN registry
           THEN LeaseRaise(p) /\ UNCHANGED <<pools, clients>>
           ELSE LET entry == registry[key]
                    conn == [pool_id |-> entry.pool_id, created_for |-> entry.created_for]
                    touched == [registry EXCEPT ![key].last_used = now]
                IN  IF family = "mongodb"
                    THEN /\ SetRegistry(family, touched)
                         /\ lease' = [lease EXCEPT ![p].conn = conn,
                                         ![p].conn_state = IF entry.closed THEN "closed_by_sweep"
                                                           ELSE "leased"]
                         /\ pc' = [pc EXCEPT ![p] = "pool_leased"]
                    ELSE IF entry.closed \/ entry.used >= PoolMaxConn
                         THEN SetRegistry(family, touched) /\ LeaseReturn(p, NoConn, TRUE)
                         ELSE \/ /\ SetRegistry(family, [touched EXCEPT ![key].used = @ + 1])
                                 /\ LeaseReturn(p, conn, FALSE)
                              \/ /\ SetRegistry(family, touched)
                                 /\ LeaseReturn(p, NoConn, TRUE)
    /\ UNCHANGED <<ledger_vars, usage, result, request_vars, admission_vars,
                   pool_lock, next_pool_id, now, sweeper>>
    /\ UNCHANGED <<token_op, client, retention>>

\* pool.putconn(conn): PoolError when the pool is closed or never handed out
\* this connection
PutconnRaises(entry, conn) == entry.closed \/ entry.pool_id # conn.pool_id

\* release_connection(host, port, database, user, conn): when the key is in the
\* registry, putconn and a new last_used, or conn.close() when that raises;
\* nothing when the key is not in the registry
release_connection(p) ==
    /\ pc[p] = "pool_leased"
    /\ lease[p].family = "postgresql"
    /\ LET key == pool_key(lease[p].id)
       IN  IF key \in DOMAIN pools
           THEN IF PutconnRaises(pools[key], lease[p].conn)
                THEN /\ lease' = [lease EXCEPT ![p].conn_state = "closed_by_release"]
                     /\ UNCHANGED pools
                ELSE /\ pools' = [pools EXCEPT ![key].used = @ - 1, ![key].last_used = now]
                     /\ lease' = [lease EXCEPT ![p].conn_state = "returned"]
           ELSE UNCHANGED <<pools, lease>>
    /\ pc' = [pc EXCEPT ![p] = "pool_released"]
    /\ UNCHANGED <<ledger_vars, usage, result, request_vars, admission_vars,
                   clients, pool_lock, next_pool_id, now, sweeper>>
    /\ UNCHANGED <<token_op, client, retention>>

\* ------------------------------------------------------------- idle cleanup
SweepInterval == 300    \* time.sleep(300)
IdleThreshold == 600    \* current_time - last_used > 600
Sweeper == NumRequests + 1      \* the cleanup thread, as holder of the lock

Sleeping(wake) ==
    [pc |-> "sleeping", wake |-> wake, current_time |-> 0, size |-> 0, pos |-> 0,
     to_close |-> <<>>]

\* The keys of a registry in the order of the dict (order of insertion).
RECURSIVE ScanOrder(_)
ScanOrder(registry) ==
    IF DOMAIN registry = {} THEN <<>>
    ELSE LET first == CHOOSE k \in DOMAIN registry :
                          \A j \in DOMAIN registry : registry[k].pool_id <= registry[j].pool_id
         IN  <<first>> \o ScanOrder([k \in DOMAIN registry \ {first} |-> registry[k]])

IsIdleLate(current_time, last_used) == current_time - last_used > IdleThreshold + SweepInterval
IsIdle(current_time, last_used) == current_time - last_used > IdleThreshold

\* time.sleep(300) is over: current_time = time.time(), and the iteration over
\* the dict begins
sweep_wake(f) ==
    /\ sweeper[f].pc = "sleeping"
    /\ now >= sweeper[f].wake
    /\ sweeper' = [sweeper EXCEPT ![f] =
                     [@ EXCEPT !.pc = "scanning", !.current_time = now,
                               !.size = Cardinality(DOMAIN Registry(f)), !.pos = 1]]
    /\ UNCHANGED <<ledger_vars, pc, usage, result, request_vars, admission_vars,
                   pools, clients, pool_lock, next_pool_id, now, lease>>
    /\ UNCHANGED <<token_op, client, retention>>

\* one step of "for key, info in self._pools.items()", no lock held: a
\* RuntimeError (the dict changed size during the iteration) ends the thread,
\* the end of the dict ends the loop, an idle entry is appended to the list
sweep_scan(f) ==
    /\ sweeper[f].pc = "scanning"
    /\ LET registry == Registry(f)
           sw == sweeper[f]
       IN  sweeper' = [sweeper EXCEPT ![f] =
              IF Cardinality(DOMAIN registry) # sw.size
              THEN [sw EXCEPT !.pc = "dead"]
              ELSE IF sw.pos > sw.size
              THEN [sw EXCEPT !.pc = "locking"]
              ELSE LET key == ScanOrder(registry)[sw.pos]
                   IN  [sw EXCEPT !.pos = @ + 1,
                                  !.to_close =
                                     IF IsIdle(sw.current_time, registry[key].last_used)
                                     THEN Append(@, key) ELSE @]]
    /\ UNCHANGED <<ledger_vars, pc, usage, result, request_vars, admission_vars,
                   pools, clients, pool_lock, next_pool_id, now, lease>>
    /\ UNCHANGED <<token_op, client, retention>>

\* "with self._lock:"
sweep_lock(f) ==
    /\ sweeper[f].pc = "locking"
    /\ pool_lock[f] = NoProc
    /\ pool_lock' = [pool_lock EXCEPT ![f] = Sweeper]
    /\ sweeper' = [sweeper EXCEPT ![f].pc = "closing"]
    /\ UNCHANGED <<ledger_vars, pc, usage, result, request_vars, admission_vars,
                   pools, clients, next_pool_id, now, lease>>
    /\ UNCHANGED <<token_op, client, retention>>

\* pool.closeall() / client.close() for the next key of the list: the pool is
\* closed and with it every connection it has handed out or holds
CloseAll(leases, f, pool_id) ==
    [p \in DOMAIN leases |->
        IF /\ leases[p].family = f
           /\ leases[p].conn.pool_id = pool_id
           /\ leases[p].conn_state \in {"leased", "returned"}
        THEN [leases[p] EXCEPT !.conn_state = "closed_by_sweep"]
        ELSE leases[p]]

sweep_close(f) ==
    /\ sweeper[f].pc = "closing"
    /\ sweeper[f].to_close # <<>>
    /\ LET key == Head(sweeper[f].to_close)
           registry == Registry(f)
       IN  /\ SetRegistry(f, [registry EXCEPT ![key].closed = TRUE])
           /\ lease' = CloseAll(lease, f, registry[key].pool_id)
    /\ sweeper' = [sweeper EXCEPT ![f].pc = "deleting"]
    /\ UNCHANGED <<ledger_vars, pc, usage, result, request_vars, admission_vars,
                   pool_lock, next_pool_id, now>>
    /\ UNCHANGED <<token_op, client, retention>>

\* del self._pools[key]
sweep_del(f) ==
    /\ sweeper[f].pc = "deleting"
    /\ LET key == Head(sweeper[f].to_close)
           registry == Registry(f)
       IN  SetRegistry(f, [k \in DOMAIN registry \ {key} |-> registry[k]])
    /\ sweeper' = [sweeper EXCEPT ![f].pc = "closing", ![f].to_close = Tail(@)]
    /\ UNCHANGED <<ledger_vars, pc, usage, result, request_vars, admission_vars,
                   pool_lock, next_pool_id, now, lease>>
    /\ UNCHANGED <<token_op, client, retention>>

\* the list is done: the lock is released and the thread sleeps again
sweep_sleep(f) ==
    /\ sweeper[f].pc = "closing"
    /\ sweeper[f].to_close = <<>>
    /\ pool_lock' = [pool_lock EXCEPT ![f] = NoProc]
    /\ sweeper' = [sweeper EXCEPT ![f] = Sleeping(now + SweepInterval)]
    /\ UNCHANGED <<ledger_vars, pc, usage, result, request_vars, admission_vars,
                   pools, clients, next_pool_id, now, lease>>
    /\ UNCHANGED <<token_op, client, retention>>

\* time passes
MaxTicks == 3
tick ==
    /\ now + SweepInterval <= MaxTicks * SweepInterval
    /\ now' = now + SweepInterval
    /\ UNCHANGED <<ledger_vars, pc, usage, result, request_vars, admission_vars,
                   pools, clients, pool_lock, next_pool_id, lease, sweeper>>
    /\ UNCHANGED <<token_op, client, retention>>

InitRegistry ==
    /\ pools = <<>>
    /\ clients = <<>>
    /\ pool_lock = [family \in {"postgresql", "mongodb"} |-> NoProc]
    /\ next_pool_id = 1
    /\ now = 0
    /\ sweeper = [f \in {"postgresql", "mongodb"} |-> Sleeping(SweepInterval)]

InitNoLeases == lease = [p \in Procs |-> NoLease]

\* ------------------------------------------------------------ initial states
InitAdmissionState ==
    /\ semaphores = [name \in Limiters |-> Semaphore(CapOf(name))]
    /\ current = [name \in Limiters |-> 0]

InitNoRequests ==
    /\ req = [p \in Procs |-> NoRequest]
    /\ token_info = [p \in Procs |-> NoInfo]
    /\ response = [p \in Procs |-> ""]

\* ----------------------------------------------------------- ledger alone
\* Callers invoke update_token_usage directly, concurrently, for any token_id.
InitLedgerTables ==
    /\ api_tokens \in {f \in [TokenIds -> UNION {TokenRows(id) : id \in TokenIds}] :
                          \A id \in TokenIds : f[id] \in TokenRows(id)}
    /\ token_usage_logs = EmptyBag
    /\ row_lock = [t \in TokenIds |-> NoProc]
    /\ initial_tokens = api_tokens

\* The calls made: any token_id per caller (callers in non-decreasing order of
\* token_id, one representative of each multiset of calls), the status
\* alternating between "success" and "error" from one caller to the next.
Statuses == <<"success", "error">>
StatusOfCaller(p) == Statuses[(p % 2) + 1]

InitLedger ==
    /\ InitLedgerTables
    /\ pc = [p \in Procs |-> "usage_call"]
    /\ \E ids \in [Procs -> TokenIds \cup {MissingTokenId}] :
          /\ \A p, q \in Procs : p < q => ids[p] <= ids[q]
          /\ usage = [p \in Procs |-> UsageArgs(ids[p], StatusOfCaller(p))]
    /\ result = [p \in Procs |-> FALSE]
    /\ InitNoRequests
    /\ InitAdmissionState
    /\ InitRegistry /\ InitNoLeases /\ InitNoTokenOps /\ InitNoClient /\ InitNoRetention

NextLedger == \E p \in Procs : update_token_usage(p)

SpecLedger == InitLedger /\ [][NextLedger]_vars

\* ------------------------------------------------- admission control alone
\* Requests that TokenAuthMiddleware has let through arrive at
\* ConcurrencyLimiterMiddleware.dispatch, any mix of the three path classes
\* (one representative of each multiset of requests).
InitFreshTables ==
    /\ api_tokens = [id \in TokenIds |->
                        IF id % 2 = 1 THEN LimitedRow(id, MaxCalls, MaxCalls)
                        ELSE UnlimitedRow(id)]
    /\ token_usage_logs = EmptyBag
    /\ row_lock = [t \in TokenIds |-> NoProc]
    /\ initial_tokens = api_tokens

AdmissionPaths == <<PathPostgresql, PathMongodb, PathAuthToken>>
BearerOf(p) == ((p - 1) % NumTokens) + 1

InitAdmission ==
    /\ InitFreshTables
    /\ InitAdmissionState
    /\ InitRegistry /\ InitNoLeases /\ InitNoTokenOps /\ InitNoClient /\ InitNoRetention
    /\ pc = [p \in Procs |-> "limiter"]
    /\ usage = [p \in Procs |-> NoUsage]
    /\ result = [p \in Procs |-> FALSE]
    /\ response = [p \in Procs |-> ""]
    /\ \E k \in [Procs -> 1..Len(AdmissionPaths)] :
          /\ \A p, q \in Procs : p < q => k[p] <= k[q]
          /\ req = [p \in Procs |->
                      IF IsExcluded(AdmissionPaths[k[p]])
                      THEN Request(AdmissionPaths[k[p]], "POST", NoAccessToken)
                      ELSE Request(AdmissionPaths[k[p]], "POST", BearerOf(p))]
          /\ token_info = [p \in Procs |->
                      IF IsExcluded(AdmissionPaths[k[p]]) THEN NoInfo
                      ELSE InfoOf(api_tokens, BearerOf(p))]

NextAdmission ==
    \E p \in Procs :
        \/ limiter_acquire(p)
        \/ limiter_resume(p)
        \/ limiter_cancel_waiting(p)
        \/ limiter_exit(p)

SpecAdmission == InitAdmission /\ [][NextAdmission]_vars

\* --------------------------------------------------------- the whole gateway
\* The requests sent: one to an excluded path, one without accessToken, one
\* with an unknown accessToken, and every (path, method, token) of the two
\* backend endpoints (one representative of each multiset of requests).
GatewayPaths == <<PathPostgresql, PathMongodb>>
GatewayMethods == <<"GET", "POST">>
GatewayRequests ==
    <<Request(PathAuthToken, "POST", NoAccessToken),
      Request(PathPostgresql, "POST", NoAccessToken),
      Request(PathPostgresql, "POST", MissingTokenId)>>
    \o [i \in 1..(4 * NumTokens) |->
          Request(GatewayPaths[((i - 1) % 2) + 1],
                  GatewayMethods[(((i - 1) \div 2) % 2) + 1],
                  ((i - 1) \div 4) + 1)]

GatewayProcs == {p \in Procs : p <= NumGatewayRequests}

Init ==
    /\ InitLedgerTables
    /\ InitAdmissionState
    /\ InitRegistry /\ InitNoLeases /\ InitNoTokenOps /\ InitNoClient /\ InitNoRetention
    /\ pc = [p \in Procs |-> IF p \in GatewayProcs THEN "start" ELSE "done"]
    /\ usage = [p \in Procs |-> NoUsage]
    /\ result = [p \in Procs |-> FALSE]
    /\ token_info = [p \in Procs |-> NoInfo]
    /\ response = [p \in Procs |-> ""]
    /\ \E k \in [GatewayProcs -> 1..Len(GatewayRequests)] :
          /\ \A p, q \in GatewayProcs : p < q => k[p] <= k[q]
          /\ req = [p \in Procs |-> IF p \in GatewayProcs THEN GatewayRequests[k[p]]
                                     ELSE NoRequest]

Next ==
    \E p \in Procs :
        \/ token_auth_dispatch(p)
        \/ limiter_acquire(p)
        \/ limiter_resume(p)
        \/ limiter_cancel_waiting(p)
        \/ limiter_exit(p)
        \/ token_auth_after(p)
        \/ update_token_usage(p)
        \/ token_auth_return(p)

Spec == Init /\ [][Next]_vars

\* ------------------------------------------- the gateway, deactivated tokens
\* The gateway with tables in which any of the tokens may have been deactivated
\* (is_active = FALSE, set in the database: no endpoint writes the column).
InitGate ==
    /\ \E rows \in [TokenIds -> UNION {TokenRows(id) : id \in TokenIds}],
          active \in [TokenIds -> BOOLEAN] :
          /\ \A id \in TokenIds : rows[id] \in TokenRows(id)
          /\ api_tokens = [id \in TokenIds |-> [rows[id] EXCEPT !.is_active = active[id]]]
    /\ token_usage_logs = EmptyBag
    /\ row_lock = [t \in TokenIds |-> NoProc]
    /\ initial_tokens = api_tokens
    /\ InitAdmissionState
    /\ InitRegistry /\ InitNoLeases /\ InitNoTokenOps /\ InitNoClient /\ InitNoRetention
    /\ pc = [p \in Procs |-> IF p \in GatewayProcs THEN "start" ELSE "done"]
    /\ usage = [p \in Procs |-> NoUsage]
    /\ result = [p \in Procs |-> FALSE]
    /\ token_info = [p \in Procs |-> NoInfo]
    /\ response = [p \in Procs |-> ""]
    /\ \E k \in [GatewayProcs -> 1..Len(GatewayRequests)] :
          /\ \A p, q \in GatewayProcs : p < q => k[p] <= k[q]
          /\ req = [p \in Procs |-> IF p \in GatewayProcs THEN GatewayRequests[k[p]]
                                     ELSE NoRequest]

NextGate ==
    \E p \in Procs :
        \/ token_auth_dispatch(p)
        \/ limiter_acquire(p)
        \/ limiter_resume(p)
        \/ limiter_cancel_waiting(p)
        \/ limiter_exit(p)
        \/ token_auth_after(p)
        \/ update_token_usage(p)
        \/ token_auth_return(p)

SpecGate == InitGate /\ [][NextGate]_vars

\* -------------------------------------------------------- pool registry alone
\* Concurrent leases (threads) of both registries, for a base identity and the
\* identities that differ from it in exactly one field (one representative of
\* each multiset of leases).
BaseIdentity == Identity(<<"a">>, <<"1">>, <<"d">>, <<"u">>, <<"p">>)
Identities ==
    << BaseIdentity,
       [BaseIdentity EXCEPT !.host = <<"b">>],
       [BaseIdentity EXCEPT !.port = <<"2">>],
       [BaseIdentity EXCEPT !.database = <<"e">>],
       [BaseIdentity EXCEPT !.user = <<"v">>],
       [BaseIdentity EXCEPT !.password = <<"q">>],
       [BaseIdentity EXCEPT !.password = <<>>] >>
Families == <<"postgresql", "mongodb">>

InitPool ==
    /\ InitFreshTables
    /\ InitNoRequests
    /\ InitAdmissionState
    /\ InitRegistry /\ InitNoTokenOps /\ InitNoClient /\ InitNoRetention
    /\ pc = [p \in Procs |-> "pool_call"]
    /\ usage = [p \in Procs |-> NoUsage]
    /\ result = [p \in Procs |-> FALSE]
    /\ \E k \in [Procs -> 1..(2 * Len(Identities))] :
          /\ \A p, q \in Procs : p < q => k[p] <= k[q]
          /\ lease = [p \in Procs |->
                        Lease(Families[((k[p] - 1) \div Len(Identities)) + 1],
                              Identities[((k[p] - 1) % Len(Identities)) + 1])]

NextPool ==
    \E p \in Procs :
        \/ get_connection_check(p)
        \/ get_connection_lock(p)
        \/ get_connection_create(p)
        \/ get_connection_lease(p)
        \/ release_connection(p)

SpecPool == InitPool /\ [][NextPool]_vars

\* ------------------------------------------------- pool registry and cleanup
\* Leases and releases at any time, the clock, and the cleanup thread, for one
\* registry at a time: the two registries share no state, and the thread of a
\* registry that is never used finds nothing to do.
SweepIdentities == << BaseIdentity, [BaseIdentity EXCEPT !.host = <<"b">>] >>
NumSweepLeases == 2
SweepProcs == {p \in Procs : p <= NumSweepLeases}
UsedFamily(f) == \E p \in Procs : lease[p].family = f

InitSweep ==
    /\ InitFreshTables
    /\ InitNoRequests
    /\ InitAdmissionState
    /\ InitRegistry /\ InitNoTokenOps /\ InitNoClient /\ InitNoRetention
    /\ pc = [p \in Procs |-> IF p \in SweepProcs THEN "pool_call" ELSE "done"]
    /\ usage = [p \in Procs |-> NoUsage]
    /\ result = [p \in Procs |-> FALSE]
    /\ \E f \in {"postgresql", "mongodb"} :
       \E k \in [SweepProcs -> 1..Len(SweepIdentities)] :
          /\ \A p, q \in SweepProcs : p < q => k[p] <= k[q]
          /\ lease = [p \in Procs |-> IF p \in SweepProcs
                                       THEN Lease(f, SweepIdentities[k[p]])
                                       ELSE NoLease]

NextSweep ==
    \/ \E p \in Procs :
          \/ get_connection_check(p)
          \/ get_connection_lock(p)
          \/ get_connection_create(p)
          \/ get_connection_lease(p)
          \/ release_connection(p)
    \/ \E f \in {"postgresql", "mongodb"} :
          \/ UsedFamily(f) /\ sweep_wake(f)
          \/ sweep_scan(f)
          \/ sweep_lock(f)
          \/ sweep_close(f)
          \/ sweep_del(f)
          \/ sweep_sleep(f)
    \/ tick

SpecSweep == InitSweep /\ [][NextSweep]_vars

\* ------------------------------------------------------ the token ledger
\* Calls of create_token and update_token and write requests bearing a token
\* (pre-check, handler, consume), concurrently on the tables of a running
\* system.  The workspaces are those of the tokens at the start and one more.
NumLedgerCalls == 2
LedgerProcs == {p \in Procs : p <= NumLedgerCalls}
NewWsId == NumTokens + 1
CallsValues == {Null} \cup {Val(v) : v \in -1..MaxCalls}

LedgerCalls ==
    {[kind |-> "create", op |-> CreateArgs(ws_id, "unlimited", Null), req |-> NoRequest] :
        ws_id \in {1, NewWsId}}
    \cup {[kind |-> "create", op |-> CreateArgs(ws_id, "limited", v), req |-> NoRequest] :
        ws_id \in {1, NewWsId}, v \in CallsValues}
    \cup {[kind |-> "update", op |-> UpdateArgs(ws_id, operation, Null), req |-> NoRequest] :
        ws_id \in 1..NewWsId, operation \in {"unlimited", "reset"}}
    \cup {[kind |-> "update", op |-> UpdateArgs(ws_id, operation, v), req |-> NoRequest] :
        ws_id \in 1..NewWsId, operation \in {"add", "set"}, v \in CallsValues}
    \cup {[kind |-> "request", op |-> NoOp, req |-> Request(PathPostgresql, "POST", t)] :
        t \in 1..NewWsId}

RECURSIVE SeqOf(_)
SeqOf(S) == IF S = {} THEN <<>>
            ELSE LET x == CHOOSE y \in S : TRUE IN <<x>> \o SeqOf(S \ {x})
LedgerCallSeq == SeqOf(LedgerCalls)

InitTokens ==
    /\ InitLedgerTables /\ InitNoClient /\ InitNoRetention
    /\ InitAdmissionState
    /\ InitRegistry /\ InitNoLeases
    /\ usage = [p \in Procs |-> NoUsage]
    /\ result = [p \in Procs |-> FALSE]
    /\ token_info = [p \in Procs |-> NoInfo]
    /\ response = [p \in Procs |-> ""]
    /\ \E k \in [LedgerProcs -> 1..Len(LedgerCallSeq)] :
          /\ \A p, q \in LedgerProcs : p < q => k[p] <= k[q]
          /\ token_op = [p \in Procs |-> IF p \in LedgerProcs THEN LedgerCallSeq[k[p]].op
                                         ELSE NoOp]
          /\ req = [p \in Procs |-> IF p \in LedgerProcs THEN LedgerCallSeq[k[p]].req
                                     ELSE NoRequest]
          /\ pc = [p \in Procs |->
                     IF p \notin LedgerProcs THEN "done"
                     ELSE CASE LedgerCallSeq[k[p]].kind = "create" -> "create_call"
                            [] LedgerCallSeq[k[p]].kind = "update" -> "update_call"
                            [] OTHER -> "start"]

NextTokens ==
    \E p \in Procs :
        \/ create_token(p)
        \/ update_token(p)
        \/ token_auth_dispatch(p)
        \/ limiter_acquire(p)
        \/ limiter_resume(p)
        \/ limiter_cancel_waiting(p)
        \/ limiter_exit(p)
        \/ token_auth_after(p)
        \/ update_token_usage(p)
        \/ token_auth_return(p)

SpecTokens == InitTokens /\ [][NextTokens]_vars

\* ------------------------------------------------ a client's sequential calls
\* One client creates a limited token with total_calls = ScenarioCalls, then
\* sends ScenarioCalls + 1 write requests with it and then a read-only request,
\* each after the answer to the one before, and gives up when the creation or
\* one of the first ScenarioCalls write requests does not succeed (anything but
\* errCode 0 with the call counted). The read-only request is a query
\* sent as the backend endpoint takes it (POST /apiDatabase/postgresql with a
\* SELECT) or a GET to the same path. A second client sends one write request
\* with an unlimited token of its own at any time.
ScenarioCalls == 3
ClientProc == 1
OtherProc == 2
ScenarioLength == ScenarioCalls + 3
ReadStep == ScenarioLength

ScenarioCall(step, read_by) ==
    IF step = 1
    THEN [kind |-> "create", op |-> CreateArgs(NewWsId, "limited", Val(ScenarioCalls)),
          req |-> NoRequest]
    ELSE IF step < ReadStep
    THEN [kind |-> "request", op |-> NoOp, req |-> Request(PathPostgresql, "POST", NewWsId)]
    ELSE [kind |-> "request", op |-> NoOp, req |-> Request(PathPostgresql, read_by, NewWsId)]

\* The calls answered so far went as the client needs them to go on.
OnCourse(answers) ==
    \A i \in 1..Len(answers) :
        i <= ScenarioCalls + 1 => answers[i].code = "ok" /\ (i > 1 => answers[i].consumed)

\* the client sends its next call
client_send ==
    /\ pc[ClientProc] = "client_idle"
    /\ client.step < ScenarioLength
    /\ OnCourse(client.answers)
    /\ LET call == ScenarioCall(client.step + 1, client.read_by) IN
       /\ client' = [client EXCEPT !.step = @ + 1]
       /\ token_op' = [token_op EXCEPT ![ClientProc] = call.op]
       /\ req' = [req EXCEPT ![ClientProc] = call.req]
       /\ pc' = [pc EXCEPT ![ClientProc] =
                    IF call.kind = "create" THEN "create_call" ELSE "start"]
    /\ token_info' = [token_info EXCEPT ![ClientProc] = NoInfo]
    /\ response' = [response EXCEPT ![ClientProc] = ""]
    /\ usage' = [usage EXCEPT ![ClientProc] = NoUsage]
    /\ result' = [result EXCEPT ![ClientProc] = FALSE]
    /\ UNCHANGED <<ledger_vars, admission_vars, registry_vars, retention>>

\* the client gets the answer to its call
client_receive ==
    /\ pc[ClientProc] \in {"create_returned", "done"}
    /\ client' = [client EXCEPT !.answers = Append(@,
                    [code |-> IF pc[ClientProc] = "create_returned"
                              THEN token_op[ClientProc].code ELSE response[ClientProc],
                     consumed |-> result[ClientProc]])]
    /\ pc' = [pc EXCEPT ![ClientProc] = "client_idle"]
    /\ UNCHANGED <<ledger_vars, usage, result, request_vars, admission_vars,
                   registry_vars, token_op, retention>>

InitScenario ==
    /\ InitFreshTables
    /\ InitAdmissionState
    /\ InitRegistry /\ InitNoLeases /\ InitNoTokenOps /\ InitNoRetention
    /\ \E read_by \in {"POST", "GET"} : client = ClientAt(0, read_by)
    /\ pc = [p \in Procs |-> IF p = ClientProc THEN "client_idle"
                             ELSE IF p = OtherProc THEN "start" ELSE "done"]
    /\ req = [p \in Procs |-> IF p = OtherProc THEN Request(PathPostgresql, "POST", NumTokens)
                              ELSE NoRequest]
    /\ usage = [p \in Procs |-> NoUsage]
    /\ result = [p \in Procs |-> FALSE]
    /\ token_info = [p \in Procs |-> NoInfo]
    /\ response = [p \in Procs |-> ""]

NextScenario ==
    \/ client_send
    \/ client_receive
    \/ \E p \in Procs :
        \/ create_token(p)
        \/ token_auth_dispatch(p)
        \/ limiter_acquire(p)
        \/ limiter_resume(p)
        \/ limiter_cancel_waiting(p)
        \/ limiter_exit(p)
        \/ token_auth_after(p)
        \/ update_token_usage(p)
        \/ token_auth_return(p)

SpecScenario == InitScenario /\ [][NextScenario]_vars

\* ------------------------------------------------------- log retention
\* cleanup_token_usage_logs keeps the logs of the last month. The month before
\* a time is taken as 30 days.
Day == 24 * 60 * 60
RetentionWindow == 30 * Day

\* WHERE created_at < NOW() - INTERVAL '1 month'
IsExpiredInclusive(created_at, txn_now) == created_at <= txn_now - RetentionWindow
IsExpired(created_at, txn_now) == created_at < txn_now - RetentionWindow

ExpiredLogs(logs, txn_now) ==
    LET rows == {r \in BagToSet(logs) : IsExpired(r.created_at, txn_now)} IN
    [r \in rows |-> logs[r]]

\* return False, msg: how a call ends when something in it raised
CleanupRaises(stage) == "raised"
CleanupFailure(stage) == "failed"

CleanupReturn(p, outcome) ==
    /\ retention' = [retention EXCEPT ![
                        "calls"][p].outcome = outcome, !["calls"][p].deleted = EmptyBag]
    /\ pc' = [pc EXCEPT ![p] = "cleanup_returned"]

\* postgresql_pool.get_connection for the auth database: a connection, or an
\* error and return False, msg
cleanup_connect(p) ==
    /\ pc[p] = "cleanup_call"
    /\ \/ /\ pc' = [pc EXCEPT ![p] = "cleanup_count"]
          /\ retention' = [retention EXCEPT !["calls"][p] = NoCleanup]
       \/ CleanupReturn(p, CleanupFailure("connect"))
    /\ UNCHANGED <<ledger_vars, usage, result, request_vars, admission_vars, registry_vars>>
    /\ UNCHANGED <<token_op, client>>

\* SELECT COUNT(*) FROM token_usage_logs WHERE created_at < NOW() - INTERVAL
\* '1 month', the first statement of the transaction; if count == 0: return
\* True, None
cleanup_count(p) ==
    /\ pc[p] = "cleanup_count"
    /\ LET count == BagCardinality(ExpiredLogs(token_usage_logs, now)) IN
       IF count = 0
       THEN /\ retention' = [retention EXCEPT !["calls"][p].txn_now = now,
                                              !["calls"][p].count = 0,
                                              !["calls"][p].outcome = "success"]
            /\ pc' = [pc EXCEPT ![p] = "cleanup_returned"]
       ELSE /\ retention' = [retention EXCEPT !["calls"][p].txn_now = now,
                                              !["calls"][p].count = count]
            /\ pc' = [pc EXCEPT ![p] = "cleanup_delete"]
    /\ UNCHANGED <<ledger_vars, usage, result, request_vars, admission_vars, registry_vars>>
    /\ UNCHANGED <<token_op, client>>

\* DELETE FROM token_usage_logs WHERE created_at < NOW() - INTERVAL '1 month':
\* NOW() is the time the transaction began; the statement takes the committed
\* rows of the moment it runs and waits for rows another transaction is
\* deleting.
cleanup_delete(p) ==
    /\ pc[p] = "cleanup_delete"
    /\ LET mine == ExpiredLogs(token_usage_logs, retention.calls[p].txn_now) IN
       /\ \A q \in Procs \ {p} :
              BagToSet(retention.calls[q].deleted) \cap BagToSet(mine) = {}
       /\ retention' = [retention EXCEPT !["calls"][p].deleted = mine]
    /\ pc' = [pc EXCEPT ![p] = "cleanup_commit"]
    /\ UNCHANGED <<ledger_vars, usage, result, request_vars, admission_vars, registry_vars>>
    /\ UNCHANGED <<token_op, client>>

\* conn.commit(); return True, None
cleanup_commit(p) ==
    /\ pc[p] = "cleanup_commit"
    /\ token_usage_logs' = token_usage_logs (-) retention.calls[p].deleted
    /\ CleanupReturn(p, "success")
    /\ UNCHANGED <<api_tokens, row_lock, initial_tokens>>
    /\ UNCHANGED <<usage, result, request_vars, admission_vars, registry_vars>>
    /\ UNCHANGED <<token_op, client>>

\* except Exception: return False, msg (the COUNT, the DELETE or the COMMIT
\* raised); release_connection rolls the open transaction back
cleanup_fail(p) ==
    /\ pc[p] \in {"cleanup_count", "cleanup_delete", "cleanup_commit"}
    /\ CleanupReturn(p, CleanupFailure(pc[p]))
    /\ UNCHANGED <<ledger_vars, usage, result, request_vars, admission_vars, registry_vars>>
    /\ UNCHANGED <<token_op, client>>

cleanup_token_usage_logs(p) ==
    \/ cleanup_connect(p)
    \/ cleanup_count(p)
    \/ cleanup_delete(p)
    \/ cleanup_commit(p)
    \/ cleanup_fail(p)

\* The daily schedule and the on-demand trigger of the sweep.
SchedulerProc == 1
TriggerProc == 2
DailySweepTime == 3 * 60 * 60
MaxDays == 1
MaxTriggers == 1

DayOf(t) == t \div Day
\* the first daily sweep time after t
NextDailySweep(t) ==
    IF t % Day < DailySweepTime THEN DayOf(t) * Day + DailySweepTime
    ELSE (DayOf(t) + 1) * Day + DailySweepTime

\* the scheduler wakes at the daily sweep time and runs the sweep
scheduler_run_start ==
    /\ retention.schedule.pc = "sleeping"
    /\ now >= retention.schedule.next_run
    /\ pc[SchedulerProc] = "scheduler_idle"
    /\ retention' = [retention EXCEPT !["schedule"].pc = "running",
                                      !["schedule"].last_run = DayOf(retention.schedule.next_run)]
    /\ pc' = [pc EXCEPT ![SchedulerProc] = "cleanup_call"]
    /\ UNCHANGED <<ledger_vars, usage, result, request_vars, admission_vars, registry_vars>>
    /\ UNCHANGED <<token_op, client>>

\* the run is over: a failure is logged, an exception out of the run ends the
\* schedule; the scheduler sleeps until the next daily sweep time
scheduler_run_end ==
    /\ retention.schedule.pc = "running"
    /\ pc[SchedulerProc] = "cleanup_returned"
    /\ LET outcome == retention.calls[SchedulerProc].outcome IN
       retention' = [retention EXCEPT
           !["schedule"].pc = IF outcome = "raised" THEN "dead" ELSE "sleeping",
           !["schedule"].failed = IF outcome = "success" THEN @ ELSE 1,
           !["schedule"].next_run = NextDailySweep(now),
           !["calls"][SchedulerProc] = NoCleanup]
    /\ pc' = [pc EXCEPT ![SchedulerProc] = "scheduler_idle"]
    /\ UNCHANGED <<ledger_vars, usage, result, request_vars, admission_vars, registry_vars>>
    /\ UNCHANGED <<token_op, client>>

\* the on-demand trigger runs the sweep for its caller
trigger_call ==
    /\ pc[TriggerProc] = "trigger_idle"
    /\ retention.triggers < MaxTriggers
    /\ retention' = [retention EXCEPT !["triggers"] = @ + 1]
    /\ pc' = [pc EXCEPT ![TriggerProc] = "cleanup_call"]
    /\ response' = [response EXCEPT ![TriggerProc] = ""]
    /\ UNCHANGED <<ledger_vars, usage, result, req, token_info, admission_vars, registry_vars>>
    /\ UNCHANGED <<token_op, client>>

\* and answers with a confirmation message, or with the sweep's failure
trigger_return ==
    /\ pc[TriggerProc] = "cleanup_returned"
    /\ response' = [response EXCEPT ![TriggerProc] =
                       IF retention.calls[TriggerProc].outcome = "success"
                       THEN "ok" ELSE "error_envelope"]
    /\ retention' = [retention EXCEPT !["calls"][TriggerProc] = NoCleanup]
    /\ pc' = [pc EXCEPT ![TriggerProc] = "trigger_idle"]
    /\ UNCHANGED <<ledger_vars, usage, result, req, token_info, admission_vars, registry_vars>>
    /\ UNCHANGED <<token_op, client>>

\* Time passes: to the daily sweep time of one of the first days, to the
\* middle of the first day, or to the sweep time a retention window later.
Instants ==
    {k * Day + DailySweepTime : k \in 0..MaxDays}
        \cup {DailySweepTime + Day \div 2, RetentionWindow + DailySweepTime}
time_passes ==
    /\ \E t \in Instants : t > now /\ now' = t
    /\ UNCHANGED <<ledger_vars, usage, result, pc, request_vars, admission_vars>>
    /\ UNCHANGED <<pools, clients, pool_lock, next_pool_id, lease, sweeper>>
    /\ UNCHANGED <<token_op, client, retention>>

\* The log is empty, or holds a row older than the window, a row that is a
\* window old to the second at the first sweep time, and a row of yesterday. The scheduler sleeps until the first daily sweep
\* time, the trigger is idle, and one request's call is consumed meanwhile.
InitialLogRows ==
    {LogRow(1, 1, "success", 0 - RetentionWindow - Day),
     LogRow(1, 1, "success", DailySweepTime - RetentionWindow),
     LogRow(1, 1, "error", 0 - Day)}

InitRetention ==
    /\ api_tokens = [id \in TokenIds |->
                        IF id % 2 = 1 THEN LimitedRow(id, MaxCalls, MaxCalls)
                        ELSE UnlimitedRow(id)]
    /\ \E rows \in {{}, InitialLogRows} : token_usage_logs = SetToBag(rows)
    /\ row_lock = [t \in TokenIds |-> NoProc]
    /\ initial_tokens = api_tokens
    /\ pc = [p \in Procs |-> IF p = SchedulerProc THEN "scheduler_idle"
                             ELSE IF p = TriggerProc THEN "trigger_idle"
                             ELSE IF p = TriggerProc + 1 THEN "usage_call" ELSE "done"]
    /\ usage = [p \in Procs |-> IF p = TriggerProc + 1 THEN UsageArgs(1, "success") ELSE NoUsage]
    /\ result = [p \in Procs |-> FALSE]
    /\ InitNoRequests
    /\ InitAdmissionState
    /\ InitRegistry /\ InitNoLeases /\ InitNoTokenOps /\ InitNoClient
    /\ retention = [calls |-> [p \in Procs |-> NoCleanup],
                    schedule |-> [NoSchedule EXCEPT !.pc = "sleeping",
                                                    !.next_run = NextDailySweep(0)],
                    triggers |-> 0]

NextRetention ==
    \/ scheduler_run_start
    \/ scheduler_run_end
    \/ trigger_call
    \/ trigger_return
    \/ time_passes
    \/ \E p \in Procs :
        \/ cleanup_token_usage_logs(p)
        \/ update_token_usage(p)

SpecRetention == InitRetention /\ [][NextRetention]_vars

\* ------------------------------------------------------- ledger properties
Max(a, b) == IF a >= b THEN a ELSE b

\* The update_token_usage calls for token t that have returned True.
SuccessfulCalls(t) ==
    {p \in Procs : pc[p] \in {"usage_returned", "done"} /\ result[p]
                    /\ usage[p].token_id = t}

\* The number of committed token_usage_logs rows of token t.
LogCount(t) ==
    LET rows == {r \in BagToSet(token_usage_logs) : r.token_id = t}
    IN  BagCardinality([r \in rows |-> token_usage_logs[r]])

\* C1 (quota monotonicity): for a limited token that started with
\* remaining_calls = R, once N update_token_usage calls for it have returned
\* True, in whatever order their steps interleaved, remaining_calls is
\* max(R - N, 0) and the token has exactly N usage-log rows.
C1_QuotaMonotonicity ==
    \A t \in TokenIds :
        initial_tokens[t].token_type = "limited" =>
            LET R == Get(initial_tokens[t].remaining_calls)
                N == Cardinality(SuccessfulCalls(t))
            IN  /\ api_tokens[t].remaining_calls = Val(Max(R - N, 0))
                /\ LogCount(t) = N

\* More successful calls than the allowance: the floor at 0 is reached.
C1_Witness ==
    \E t \in TokenIds :
        /\ initial_tokens[t].token_type = "limited"
        /\ Get(initial_tokens[t].remaining_calls) >= 1
        /\ Cardinality(SuccessfulCalls(t)) > Get(initial_tokens[t].remaining_calls)
        /\ \A p \in Procs : pc[p] = "usage_returned"

UsageStages == {"usage_call", "usage_select", "usage_update", "usage_insert", "usage_commit"}

\* C2 (consume is all-or-nothing): a step in which update_token_usage returns
\* False changes neither committed table; and the committed tables change only
\* in a step in which one call commits and returns True, and then both the
\* log row and (for a limited token) the decrement appear together.
C2_AllOrNothing ==
    [][ /\ \A p \in Procs :
             (pc[p] \in UsageStages /\ pc'[p] = "usage_returned" /\ ~result'[p])
                => (api_tokens' = api_tokens /\ token_usage_logs' = token_usage_logs)
        /\ (api_tokens' # api_tokens \/ token_usage_logs' # token_usage_logs)
             => \E p \in Procs :
                  LET id == usage[p].token_id IN
                  /\ pc[p] = "usage_commit" /\ pc'[p] = "usage_returned" /\ result'[p]
                  /\ token_usage_logs' = token_usage_logs (+)
                        SetToBag({[token_id |-> id, ws_id |-> usage[p].ws_id,
                                   status |-> usage[p].status,
                                   created_at |-> usage[p].txn_now]})
                  /\ api_tokens' =
                        IF api_tokens[id].token_type = "limited"
                        THEN [api_tokens EXCEPT ![id].remaining_calls =
                                 Val(Max(Get(api_tokens[id].remaining_calls) - 1, 0))]
                        ELSE api_tokens
      ]_vars

\* A call holds an uncommitted decrement and an uncommitted log row, an earlier
\* call for the same token has failed, and the committed tables show nothing.
C2_Witness ==
    \E p, q \in Procs :
        /\ pc[p] = "usage_commit"
        /\ usage[p].write.token # <<>> /\ usage[p].write.log # <<>>
        /\ usage[p].write.token[2] # api_tokens[usage[p].token_id].remaining_calls
        /\ q # p /\ pc[q] = "usage_returned" /\ ~result[q]
        /\ usage[q].token_id = usage[p].token_id
        /\ api_tokens = initial_tokens /\ token_usage_logs = EmptyBag

\* C3 (unlimited non-decrement): update_token_usage calls on an unlimited
\* token leave remaining_calls and total_calls NULL, and the token has one
\* usage-log row per call that returned True.
C3_UnlimitedNonDecrement ==
    \A t \in TokenIds :
        initial_tokens[t].token_type = "unlimited" =>
            /\ api_tokens[t].token_type = "unlimited"
            /\ IsNull(api_tokens[t].remaining_calls)
            /\ IsNull(api_tokens[t].total_calls)
            /\ LogCount(t) = Cardinality(SuccessfulCalls(t))

\* Two calls on the same unlimited token have both returned True.
C3_Witness ==
    \E t \in TokenIds :
        /\ initial_tokens[t].token_type = "unlimited"
        /\ Cardinality(SuccessfulCalls(t)) >= 2
        /\ LogCount(t) >= 2

\* ------------------------------------------------------ gateway properties
\* C4 (write admission rule): a write request whose token_info, as read at
\* validation, is limited with remaining_calls <= 0 ends with the 1403
\* response straight from the pre-check: it never reaches the limiter or the
\* handler, and update_token_usage is never called for it.
C4_WriteAdmissionRule ==
    \A p \in Procs :
        ( /\ token_info[p] # NoInfo
          /\ is_write_operation(req[p].method)
          /\ token_info[p].token_type = "limited"
          /\ ~IsNull(token_info[p].remaining_calls)
          /\ Get(token_info[p].remaining_calls) <= 0 )
        => /\ pc[p] = "done" /\ response[p] = "1403"
           /\ usage[p] = NoUsage /\ ~result[p]
           /\ \A name \in Limiters :
                \A i \in 1..Len(semaphores[name].waiters) : semaphores[name].waiters[i] # p

\* A write request is refused with 1403 after another request has consumed the
\* token's last call.
C4_Witness ==
    \E p \in Procs :
        /\ response[p] = "1403"
        /\ Get(token_info[p].remaining_calls) = 0
        /\ Get(initial_tokens[token_info[p].token_id].remaining_calls) = 1
        /\ \E q \in Procs : q # p /\ pc[q] = "usage_returned" /\ result[q]

\* The request holds an admission permit.
HoldsPermit(p) ==
    \/ pc[p] = "handler"
    \/ \E name \in Limiters : p \in semaphores[name].woken

\* C5 (request ordering): a request to a backend endpoint that has accessed the
\* quota ledger (validation done, or consume in progress) and has not finished
\* holds its admission permit: the permit is acquired before the validation
\* and released only after consume.
C5_RequestOrdering ==
    \A p \in Procs :
        ( /\ ~IsExcluded(req[p].path)
          /\ token_info[p] # NoInfo \/ pc[p] \in UsageStages
          /\ pc[p] \notin {"done", "usage_returned"} )
        => HoldsPermit(p)

\* The requests of one backend family that are inside call_next.
InHandler(path) == {p \in Procs : pc[p] = "handler" /\ req[p].path = path}
FamilyLimiter(path) ==
    IF path = PathPostgresql THEN "postgresql_semaphore" ELSE "mongodb_semaphore"

\* C6 (admission bound): at no time are more requests of one backend family
\* between permit acquisition and permit release than the family's cap, however
\* many are launched; the middleware's counter agrees with that number.
C6_AdmissionBound ==
    \A path \in {PathPostgresql, PathMongodb} :
        /\ Cardinality(InHandler(path)) <= CapOf(FamilyLimiter(path))
        /\ current[FamilyLimiter(path)] = Cardinality(InHandler(path))

\* More PostgreSQL requests than the cap were launched: the cap's worth is in
\* the handler and all the others wait.
C6_Witness ==
    /\ \A p \in Procs : req[p].path = PathPostgresql
    /\ NumRequests > PostgresqlMaxConcurrent
    /\ Cardinality(InHandler(PathPostgresql)) = PostgresqlMaxConcurrent
    /\ \A p \in Procs : pc[p] \in {"handler", "waiting"}

\* C7 (global cap): the requests of all kinds that are past admission and not
\* finished number at most max_concurrent_requests.
C7_GlobalCap ==
    Cardinality({p \in Procs : pc[p] = "handler"}) <= MaxConcurrentRequests

PermitsHeld(name) ==
    Cardinality({p \in Procs : LimiterOf(req[p].path) = name /\ HoldsPermit(p)})
InFlight == {p \in Procs : pc[p] \in {"waiting", "handler"}}

\* C8 (permit pairing): for each limiter the free permits plus the permits
\* held by requests always add up to the cap (no acquisition without its one
\* release, no release without an acquisition), on every exit path; with no
\* request in flight the free permits equal the cap.
C8_PermitPairing ==
    \A name \in Limiters :
        /\ semaphores[name].value >= 0
        /\ semaphores[name].value + PermitsHeld(name) = CapOf(name)
        /\ InFlight = {} => semaphores[name].value = CapOf(name)

\* Every request is over, one by an exception and one by a cancellation inside
\* the handler.
C8_Witness ==
    /\ InFlight = {}
    /\ \A p \in Procs : pc[p] = "after_call_next"
    /\ \E p, q \in Procs :
          /\ response[p] = "exception" /\ response[q] = "cancelled"
          /\ LimiterOf(req[p].path) = LimiterOf(req[q].path)

\* C9 (cancellation while waiting): a request cancelled while it waits for a
\* permit leaves the queue and is over without entering the handler; the
\* limiter's free plus held permits are unchanged, and if no permit had yet
\* been handed to it the semaphore is exactly as it was but for its queue entry.
C9_CancelWhileWaiting ==
    [][ \A p \in Procs :
          /\ (pc[p] = "waiting" /\ pc'[p] # "handler") =>
               LET name == LimiterOf(req[p].path) IN
               /\ pc'[p] \in {"waiting", "done"}
               /\ pc'[p] = "done" =>
                    /\ response'[p] = "cancelled"
                    /\ current' = current
                    /\ \A i \in 1..Len(semaphores'[name].waiters) :
                          semaphores'[name].waiters[i] # p
                    /\ p \notin semaphores'[name].woken
                    /\ semaphores'[name].value + PermitsHeld(name)'
                          = semaphores[name].value + PermitsHeld(name)
                    /\ p \notin semaphores[name].woken =>
                          /\ semaphores'[name].value = semaphores[name].value
                          /\ semaphores'[name].woken = semaphores[name].woken
          /\ (pc[p] = "done" /\ response[p] = "cancelled") => pc'[p] = "done"
      ]_vars

\* A request was cancelled in the queue while the permit was held by another
\* request, which is still in the handler.
C9_Witness ==
    \E p, q \in Procs :
        /\ pc[p] = "done" /\ response[p] = "cancelled"
        /\ pc[q] = "handler" /\ LimiterOf(req[q].path) = LimiterOf(req[p].path)
        /\ semaphores[LimiterOf(req[p].path)].value = 0

\* ------------------------------------------------------- registry properties
Leased(family) == {p \in Procs : pc[p] = "pool_leased" /\ lease[p].family = family}

\* C10 (pool identity): two leases of one registry are served from the same
\* pool exactly when their connection identities (host, port, database,
\* principal, credential) are identical.
C10_PoolIdentity ==
    \A family \in {"postgresql", "mongodb"} :
        \A p, q \in Leased(family) :
            (lease[p].id = lease[q].id) <=> (lease[p].conn.pool_id = lease[q].conn.pool_id)

\* C11 (recently used pools survive the sweep): an entry whose last lease or
\* release is less than the idle threshold ago is neither closed nor removed by
\* any step, also when a lease falls between the sweep's scan and its close.
C11_RecentPoolsSurvive ==
    [][ \A f \in {"postgresql", "mongodb"} :
          \A key \in DOMAIN Registry(f) :
             now - Registry(f)[key].last_used < IdleThreshold =>
                /\ key \in DOMAIN Registry(f)'
                /\ Registry(f)'[key].closed = Registry(f)[key].closed
                /\ Registry(f)'[key].pool_id = Registry(f)[key].pool_id
      ]_vars

\* The cleanup thread of registry f ends a pass in this step.
PassEnds(f) == sweeper[f].pc = "closing" /\ sweeper'[f].pc = "sleeping"

C13_ReleaseAfterReap ==
    [][ \A p \in Procs :
          ( /\ lease[p].family = "postgresql"
            /\ pc[p] = "pool_leased" /\ pc'[p] # "pool_leased"
            /\ pool_key(lease[p].id) \notin DOMAIN pools )
          => /\ pc'[p] = "pool_released"
             /\ lease'[p].conn_state = "closed_by_release"
      ]_vars

\* C14 (failed pool creation is not cached): a lease whose pool creation fails
\* returns (None, error) and leaves the registry as it was, without an entry
\* for the key and with the lock free; a lease that then finds the key absent
\* goes on to create the pool itself.
C14_FailedCreationNotCached ==
    [][ \A p \in Procs :
          LET f == lease[p].family
              key == KeyOf(f, lease[p].id)
          IN  /\ (pc[p] = "pool_create" /\ pc'[p] = "pool_failed") =>
                    /\ lease'[p].conn = NoConn /\ lease'[p].error
                    /\ Registry(f)' = Registry(f)
                    /\ key \notin DOMAIN Registry(f)'
                    /\ pool_lock'[f] = NoProc
              /\ (pc[p] = "pool_call" /\ pc'[p] # "pool_call"
                    /\ \E q \in Procs : /\ pc[q] = "pool_failed" /\ lease[q].family = f
                                        /\ KeyOf(f, lease[q].id) = key
                    /\ \A k \in DOMAIN Registry(f) : Registry(f)[k].pool_id # 0
                                                     => k # key) =>
                    pc'[p] = "pool_lock"
      ]_vars

\* The creation of a pool failed for one lease, and a later lease for the same
\* key created the pool and holds a connection of it.
C14_Witness ==
    \E p, q \in Procs :
        /\ pc[p] = "pool_failed" /\ lease[p].conn = NoConn
        /\ lease[q].family = lease[p].family
        /\ KeyOf(lease[q].family, lease[q].id) = KeyOf(lease[p].family, lease[p].id)
        /\ pc[q] = "pool_leased" /\ lease[q].conn_state = "leased"
        /\ lease[q].conn.pool_id = 1

\* ----------------------------------------------------- token ledger properties
\* The call of p returns in this step, and not because the database connection
\* failed.
Returns(p, op) ==
    /\ token_op[p].op = op
    /\ pc[p] \notin {"create_returned", "update_returned"}
    /\ pc'[p] \in {"create_returned", "update_returned"}
    /\ token_op'[p].code # "1000"
    /\ token_op'[p].raised # "OperationalError"

\* C15 (duplicate ws_id): a create for a ws_id that has a token when the create
\* returns fails with the duplicate-ws_id error 1050 and leaves the table as it
\* was, also when the token was created concurrently.
C15_DuplicateWsId ==
    [][ \A p \in Procs :
          (Returns(p, "create") /\ RowsOfWs(api_tokens, token_op[p].ws_id) # {})
          => /\ token_op'[p].code = "1050"
             /\ api_tokens' = api_tokens
      ]_vars

\* C16 (one token per ws_id): in every state no two token records have the same
\* ws_id, and no step removes a token record or changes the ws_id of one.
C16_OneTokenPerWsId ==
    /\ [](\A i, j \in 1..Len(api_tokens) :
            api_tokens[i].ws_id = api_tokens[j].ws_id => i = j)
    /\ [][ /\ Len(api_tokens') >= Len(api_tokens)
           /\ \A i \in 1..Len(api_tokens) :
                api_tokens'[i].ws_id = api_tokens[i].ws_id
       ]_vars

\* Two creates for the same new ws_id have both returned; one stored its row.
C16_Witness ==
    \E p, q \in Procs :
        /\ p # q
        /\ pc[p] = "create_returned" /\ pc[q] = "create_returned"
        /\ token_op[p].ws_id = token_op[q].ws_id
        /\ token_op[p].code = "ok" /\ token_op[q].raised = "UniqueViolation"
        /\ Cardinality(RowsOfWs(api_tokens, token_op[p].ws_id)) = 1

\* C17 (token shape): every unlimited token has both counters null, and every
\* limited token has both counters present with remaining_calls >= 0.
C17_TokenShape ==
    \A id \in 1..Len(api_tokens) :
        LET row == api_tokens[id] IN
        /\ row.token_type = "unlimited"
              => row.remaining_calls = Null /\ row.total_calls = Null
        /\ row.token_type = "limited"
              => /\ row.remaining_calls # Null /\ row.total_calls # Null
                 /\ \A r \in row.remaining_calls : r >= 0

\* C18 (remaining never exceeds the cap): every limited token whose counters
\* are both present has remaining_calls <= total_calls, in every state.
C18_RemainingWithinTotal ==
    \A id \in 1..Len(api_tokens) :
        LET row == api_tokens[id] IN
        row.token_type = "limited"
            => \A r \in row.remaining_calls : \A t \in row.total_calls : r <= t

\* An add has raised both counters of a limited token and a consume has lowered
\* its remaining_calls: remaining_calls is above 0 and below total_calls.
C18_Witness ==
    \E p, q \in Procs :
        /\ pc[p] = "update_returned" /\ token_op[p].code = "ok"
        /\ token_op[p].operation = "add"
        /\ pc[q] = "usage_returned" /\ result[q]
        /\ usage[q].token_id = token_op[p].token_id
        /\ token_op[p].token_id \in DOMAIN initial_tokens
        /\ initial_tokens[token_op[p].token_id].total_calls # Null
        /\ LET row == api_tokens[token_op[p].token_id] IN
           /\ row.token_type = "limited"
           /\ row.total_calls # Null /\ row.remaining_calls # Null
           /\ Get(row.remaining_calls) > 0
           /\ Get(row.remaining_calls) < Get(row.total_calls)
           /\ Get(row.total_calls) > Get(initial_tokens[token_op[p].token_id].total_calls)

\* The counter x of a row, with a null counter read as 0.
OrZero(x) == IF x = Null THEN 0 ELSE Get(x)

\* C19 (add and unlimited): an update of an existing token with operation add
\* and calls_value v > 0 succeeds and leaves the token limited with
\* remaining_calls = (old remaining_calls, or 0 if null) + v and total_calls =
\* (old total_calls, or 0 if null) + v; an update with operation unlimited
\* succeeds and leaves the token unlimited with both counters null.
C19_AddAndUnlimited ==
    [][ \A p \in Procs :
          LET op == token_op[p]
              rows == RowsOfWs(api_tokens, op.ws_id)
          IN  ( /\ Returns(p, "update")
                /\ rows # {}
                /\ \/ op.operation = "unlimited"
                   \/ /\ op.operation = "add"
                      /\ op.calls_value # Null /\ Get(op.calls_value) > 0 )
              => /\ token_op'[p].code = "ok"
                 /\ \A id \in rows :
                      LET old == api_tokens[id]
                          new == api_tokens'[id]
                      IN  IF op.operation = "unlimited"
                          THEN /\ new.token_type = "unlimited"
                               /\ new.remaining_calls = Null
                               /\ new.total_calls = Null
                          ELSE /\ new.token_type = "limited"
                               /\ new.remaining_calls =
                                    Val(OrZero(old.remaining_calls) + Get(op.calls_value))
                               /\ new.total_calls =
                                    Val(OrZero(old.total_calls) + Get(op.calls_value))
      ]_vars

\* An add has turned a token that was unlimited into a limited one, and an
\* unlimited update has cleared the counters of a token that was limited.
C19_Witness ==
    \E p, q \in Procs :
        /\ pc[p] = "update_returned" /\ token_op[p].code = "ok"
        /\ token_op[p].operation = "add"
        /\ token_op[p].token_id \in DOMAIN initial_tokens
        /\ initial_tokens[token_op[p].token_id].token_type = "unlimited"
        /\ api_tokens[token_op[p].token_id].token_type = "limited"
        /\ api_tokens[token_op[p].token_id].total_calls = token_op[p].calls_value
        /\ pc[q] = "update_returned" /\ token_op[q].code = "ok"
        /\ token_op[q].operation = "unlimited"
        /\ token_op[q].token_id \in DOMAIN initial_tokens
        /\ initial_tokens[token_op[q].token_id].token_type = "limited"
        /\ initial_tokens[token_op[q].token_id].total_calls # Null
        /\ api_tokens[token_op[q].token_id].token_type = "unlimited"
        /\ api_tokens[token_op[q].token_id].total_calls = Null

\* C20 (set): an update of an existing token with operation set and a
\* calls_value v >= 0, v = 0 included, succeeds and leaves the token limited
\* with remaining_calls = total_calls = v.
C20_SetAcceptsZero ==
    [][ \A p \in Procs :
          LET op == token_op[p]
              rows == RowsOfWs(api_tokens, op.ws_id)
          IN  ( /\ Returns(p, "update")
                /\ rows # {}
                /\ op.operation = "set"
                /\ op.calls_value # Null /\ Get(op.calls_value) >= 0 )
              => /\ token_op'[p].code = "ok"
                 /\ \A id \in rows :
                      /\ api_tokens'[id].token_type = "limited"
                      /\ api_tokens'[id].remaining_calls = op.calls_value
                      /\ api_tokens'[id].total_calls = op.calls_value
      ]_vars

\* The arguments of an update that is to be rejected: an operation outside add,
\* set and unlimited, add with a missing or non-positive calls_value, set with
\* a missing or negative calls_value.
RejectedArgs(op) ==
    \/ op.operation \notin {"add", "set", "unlimited"}
    \/ op.operation = "add" /\ (op.calls_value = Null \/ Get(op.calls_value) <= 0)
    \/ op.operation = "set" /\ (op.calls_value = Null \/ Get(op.calls_value) < 0)

\* C21 (rejected updates mutate nothing): an update with rejected arguments for
\* a ws_id that has a token never gets to write or commit, returns the
\* validation error 1400 and leaves the table as it was; an update for a ws_id
\* without a token returns the not-found error 1051 and adds no record.
C21_RejectedUpdates ==
    /\ [](\A p \in Procs :
            (token_op[p].op = "update" /\ RejectedArgs(token_op[p]))
            => /\ pc[p] # "update_commit"
               /\ token_op[p].write = <<>>
               /\ \A id \in 1..Len(row_lock) : row_lock[id] # p)
    /\ [][ \A p \in Procs :
             Returns(p, "update") =>
                LET rows == RowsOfWs(api_tokens, token_op[p].ws_id)
                IN  /\ (rows # {} /\ RejectedArgs(token_op[p]))
                         => token_op'[p].code = "1400" /\ api_tokens' = api_tokens
                    /\ rows = {}
                         => token_op'[p].code = "1051" /\ api_tokens' = api_tokens
       ]_vars

\* One update was rejected for its arguments and one for its ws_id, and the
\* tables are as they were at the start.
C21_Witness ==
    \E p, q \in Procs :
        /\ pc[p] = "update_returned" /\ token_op[p].code = "1400"
        /\ token_op[p].operation = "add" /\ token_op[p].calls_value = Val(0)
        /\ pc[q] = "update_returned" /\ token_op[q].code = "1051"
        /\ api_tokens = initial_tokens

\* ------------------------------------------------- authentication properties
\* The request carries the access_token of an active token record.
CarriesActiveToken(p) ==
    /\ req[p].access_token # NoAccessToken
    /\ \E id \in 1..Len(api_tokens) :
          api_tokens[id].access_token = req[p].access_token /\ api_tokens[id].is_active

\* The request is past TokenAuthMiddleware's checks.
PastGate(p) == pc[p] \in {"limiter", "waiting", "handler", "after_call_next"} \cup UsageStages
    \cup {"usage_returned"}

\* C22 (authentication gate): a request on a path that is not excluded gets
\* past the token check only with the access_token of an active token record;
\* without a token it ends with 1401, with an unknown or deactivated token with
\* 1402, and in both cases it never was admitted, never ran the handler and
\* never called update_token_usage, and the step that rejects it changes no
\* table.
C22_AuthenticationGate ==
    /\ [](\A p \in Procs :
            (req[p] # NoRequest /\ ~IsExcluded(req[p].path)) =>
               /\ PastGate(p) => CarriesActiveToken(p)
               /\ (pc[p] = "done" /\ req[p].access_token = NoAccessToken)
                     => response[p] = "1401"
               /\ (pc[p] = "done" /\ req[p].access_token # NoAccessToken
                                  /\ ~CarriesActiveToken(p))
                     => response[p] = "1402"
               /\ response[p] \in {"1401", "1402"}
                     => pc[p] = "done" /\ usage[p] = NoUsage /\ token_info[p] = NoInfo)
    /\ [][ \A p \in Procs :
             (response'[p] \in {"1401", "1402"} /\ response[p] # response'[p])
             => /\ pc[p] = "start"
                /\ UNCHANGED <<ledger_vars, admission_vars>>
       ]_vars

\* A request with a deactivated token was rejected with 1402 while a request
\* with an active token ran the handler and consumed.
C22_Witness ==
    \E p, q \in Procs :
        /\ response[p] = "1402"
        /\ \E id \in 1..Len(api_tokens) :
              api_tokens[id].access_token = req[p].access_token /\ ~api_tokens[id].is_active
        /\ pc[q] = "usage_returned" /\ result[q] /\ CarriesActiveToken(q)

\* The handler's answers that are HTTP responses (not an exception, not a
\* cancellation).
HandlerResponses == {"ok", "error_envelope", "status_422", "status_405", "status_404"}

\* The request is a write request on a path that is not excluded.
CountedWrite(p) ==
    req[p] # NoRequest /\ ~IsExcluded(req[p].path) /\ is_write_operation(req[p].method)

\* C23 (at most one decrement per request): update_token_usage is entered only
\* by a validated write request whose handler has returned a response, for the
\* token the request was validated with, and at most once per request; every
\* such request enters it; a step lowers remaining_calls of a token by exactly
\* 1 and only together with one new usage-log row; so a token's remaining_calls
\* has dropped by at most, and its log has grown by exactly, the number of
\* requests whose consume succeeded.
C23_OneDecrementPerRequest ==
    /\ [](\A p \in Procs :
            (CountedWrite(p) /\ pc[p] = "done" /\ response[p] \in HandlerResponses)
            => usage[p] # NoUsage)
    /\ [](\A t \in TokenIds :
            /\ OrZero(initial_tokens[t].remaining_calls) - OrZero(api_tokens[t].remaining_calls)
                  <= Cardinality(SuccessfulCalls(t))
            /\ LogCount(t) = Cardinality(SuccessfulCalls(t)))
    /\ [][ /\ \A p \in Procs :
                /\ (pc'[p] = "usage_call" /\ pc[p] # "usage_call")
                     => /\ pc[p] = "after_call_next"
                        /\ CountedWrite(p)
                        /\ response[p] \in HandlerResponses
                        /\ token_info[p] # NoInfo
                        /\ usage'[p].token_id = token_info[p].token_id
                /\ pc[p] = "usage_returned" => pc'[p] \in {"usage_returned", "done"}
                /\ pc[p] = "done" => pc'[p] = "done"
           /\ \A t \in TokenIds :
                api_tokens'[t].remaining_calls # api_tokens[t].remaining_calls
                  => /\ Get(api_tokens[t].remaining_calls)
                           - Get(api_tokens'[t].remaining_calls) = 1
                     /\ LogCount(t)' = LogCount(t) + 1
           /\ BagCardinality(token_usage_logs') <= BagCardinality(token_usage_logs) + 1
       ]_vars

\* Two write requests with the same limited token have both consumed: two
\* calls lower, two log rows.
C23_Witness ==
    \E t \in TokenIds :
        /\ initial_tokens[t].token_type = "limited"
        /\ Cardinality(SuccessfulCalls(t)) = 2
        /\ \A p \in SuccessfulCalls(t) : CountedWrite(p) /\ response[p] \in HandlerResponses
        /\ Get(api_tokens[t].remaining_calls) = Get(initial_tokens[t].remaining_calls) - 2
        /\ LogCount(t) = 2

\* ------------------------------------------------------ scenario properties
\* C24 (end-to-end quota scenario): after a limited token was created with
\* total_calls = ScenarioCalls, none of the first ScenarioCalls sequential write
\* requests is rejected for quota, and once they all succeeded remaining_calls
\* is 0; the next write request is rejected with 1403 without being counted
\* (1402 when the token could not be validated); the read-only request made
\* after that is not rejected for quota and is answered by the endpoint.
C24_EndToEndQuota ==
    LET answers == client.answers
        exhausted == Len(answers) >= ScenarioCalls + 1 /\ OnCourse(answers)
    IN  /\ \A i \in 2..(ScenarioCalls + 1) :
              (i <= Len(answers) /\ OnCourse(SubSeq(answers, 1, i - 1)))
              => answers[i].code # "1403"
        /\ exhausted => api_tokens[NewWsId].remaining_calls = Val(0)
        /\ (exhausted /\ Len(answers) >= ScenarioCalls + 2)
              => /\ answers[ScenarioCalls + 2].code \in {"1403", "1402"}
                 /\ ~answers[ScenarioCalls + 2].consumed
        /\ (exhausted /\ Len(answers) >= ReadStep)
              => answers[ReadStep].code \in Outcomes \cup {"1402"}

\* The client's read-only request is in progress or answered, and its token
\* was created.
ReadCall ==
    /\ client.step = ReadStep
    /\ pc[ClientProc] # "client_idle"
    /\ client.answers[1].code = "ok"

\* C25 (read-only bypass): a read-only request with a valid token is never
\* rejected for quota and never calls update_token_usage, so it changes no
\* remaining_calls and adds no usage-log row; when it has ended it has been
\* through the limiter (its answer is one call_next gave, or 1402 when the
\* token could not be validated).
C25_ReadOnlyBypass ==
    /\ [](ReadCall =>
            /\ response[ClientProc] # "1403"
            /\ usage[ClientProc] = NoUsage
            /\ pc[ClientProc] = "done"
                 => response[ClientProc] \in
                       Outcomes \cup {"status_405", "status_404", "1402"})
    /\ [][ (ReadCall /\ pc'[ClientProc] # pc[ClientProc])
             => /\ api_tokens'[NewWsId] = api_tokens[NewWsId]
                /\ LogCount(NewWsId)' = LogCount(NewWsId)
       ]_vars

\* C26 (consume failure is not fatal): from the moment the handler has
\* answered a write request until dispatch returns, update_token_usage
\* failing included, the response stays the one the handler produced, and
\* that response is what dispatch returns.
C26_ConsumeFailureNotFatal ==
    [][ \A p \in Procs :
          (CountedWrite(p) /\ pc[p] \in UsageStages \cup {"after_call_next", "usage_returned"}
                           /\ response[p] \in HandlerResponses)
          => /\ response'[p] = response[p]
             /\ pc'[p] \in UsageStages \cup {"after_call_next", "usage_returned", "done"}
      ]_vars

\* update_token_usage has returned False for a write request that the handler
\* answered with success, and dispatch has returned that answer.
C26_Witness ==
    \E p \in Procs :
        /\ CountedWrite(p)
        /\ pc[p] = "done" /\ usage[p] # NoUsage /\ ~result[p]
        /\ response[p] = "ok"


\* C27: a step of cleanup_token_usage_logs never changes a token record; its
\* DELETE marks every committed log row whose created_at is more than the
\* retention window before the transaction's NOW() and no other row; its COMMIT
\* removes the marked rows and nothing else; a call whose COUNT finds no such
\* row returns success and leaves the tables as they are; and no other step
\* removes a log row.
OlderThanWindow(r, t) == r.created_at < t - RetentionWindow
C27_RetentionSweep ==
    [][\A p \in Procs :
        /\ cleanup_token_usage_logs(p) => api_tokens' = api_tokens
        /\ cleanup_delete(p) =>
              \A r \in BagToSet(token_usage_logs) \cup BagToSet(retention'.calls[p].deleted) :
                  CopiesIn(r, retention'.calls[p].deleted) =
                      IF OlderThanWindow(r, retention.calls[p].txn_now)
                      THEN CopiesIn(r, token_usage_logs) ELSE 0
        /\ cleanup_commit(p) =>
              \A r \in BagToSet(token_usage_logs) \cup BagToSet(token_usage_logs') :
                  CopiesIn(r, token_usage_logs') =
                      CopiesIn(r, token_usage_logs) - CopiesIn(r, retention.calls[p].deleted)
        /\ (/\ cleanup_count(p)
            /\ \A r \in BagToSet(token_usage_logs) : ~OlderThanWindow(r, now))
              => /\ pc'[p] = "cleanup_returned"
                 /\ retention'.calls[p].outcome = "success"
                 /\ token_usage_logs' = token_usage_logs
        /\ (\A q \in Procs : ~cleanup_commit(q)) =>
              \A r \in BagToSet(token_usage_logs) :
                  CopiesIn(r, token_usage_logs') >= CopiesIn(r, token_usage_logs)
      ]_vars

\* One call has deleted rows and kept the row that is a window old to the
\* second; another has found nothing to delete and returned success.
C27_Witness ==
    \E p, q \in Procs :
        /\ pc[p] = "cleanup_returned" /\ pc[q] = "cleanup_returned"
        /\ retention.calls[p].outcome = "success" /\ retention.calls[p].count > 0
        /\ retention.calls[q].outcome = "success" /\ retention.calls[q].count = 0
        /\ \E r \in BagToSet(token_usage_logs) :
              r.created_at = retention.calls[p].txn_now - RetentionWindow
        /\ \A r \in BagToSet(token_usage_logs) :
              ~OlderThanWindow(r, retention.calls[p].txn_now)

Establishing(p) ==
    /\ pc[p] = "pool_create"
    /\ KeyOf(lease[p].family, lease[p].id) \notin DOMAIN Registry(lease[p].family)
C29_LockNotHeldDuringConnect ==
    \A p \in Procs :
        Establishing(p) =>
            /\ pool_lock[lease[p].family] # p
            /\ \A q \in Procs \ {p} :
                  (/\ pc[q] = "pool_lock"
                   /\ lease[q].family = lease[p].family
                   /\ KeyOf(lease[q].family, lease[q].id) # KeyOf(lease[p].family, lease[p].id))
                      => ENABLED get_connection_lock(q)

\* C30: a request at one of the three suspension points can always leave it by
\* a step of its own, with the permit, connection or row lock or with a timeout
\* or exhaustion error, whatever the current holders do: waiting for an
\* admission permit, it can resume; leasing a connection, it gets one or an
\* error; at the SELECT ... FOR UPDATE of consume, it gets the row or returns.
\* (A cancellation by the client and a failure of the database connection are
\* not steps of the request.)
C30_NoUnboundedBlocking ==
    \A p \in Procs :
        /\ pc[p] = "waiting" => ENABLED limiter_resume(p)
        /\ pc[p] = "pool_touch" => ENABLED get_connection_lease(p)
        /\ pc[p] = "usage_select" => ENABLED update_token_usage_select(p)

\* C31: a pool (client) is created only by the thread that holds the lock of
\* the registry, only for a key that has no entry, and becomes the entry of
\* that key; the set of keys of a registry changes only while the lock is
\* held, so an insertion and a removal never overlap; the entries of different
\* keys are different pools; and leases of one key that hold a live connection
\* at the same time hold it from the same pool, the one registered for the key.
FamilyNames == {"postgresql", "mongodb"}
C31_OnePoolPerKey ==
    /\ [][/\ next_pool_id' # next_pool_id =>
               \E p \in Procs :
                  LET f == lease[p].family
                      key == KeyOf(f, lease[p].id)
                  IN  /\ f \in FamilyNames
                      /\ pool_lock[f] = p
                      /\ key \notin DOMAIN Registry(f)
                      /\ key \in DOMAIN (IF f = "postgresql" THEN pools' ELSE clients')
                      /\ (IF f = "postgresql" THEN pools' ELSE clients')[key].pool_id = next_pool_id
          /\ DOMAIN pools' # DOMAIN pools => pool_lock["postgresql"] # NoProc
          /\ DOMAIN clients' # DOMAIN clients => pool_lock["mongodb"] # NoProc
         ]_vars
    /\ [](\A f \in FamilyNames :
            /\ \A j, k \in DOMAIN Registry(f) :
                  j # k => Registry(f)[j].pool_id # Registry(f)[k].pool_id
            /\ \A p, q \in Procs :
                  (/\ lease[p].family = f /\ lease[q].family = f
                   /\ KeyOf(f, lease[p].id) = KeyOf(f, lease[q].id)
                   /\ lease[p].conn_state = "leased" /\ lease[q].conn_state = "leased")
                      => /\ lease[p].conn.pool_id = lease[q].conn.pool_id
                         /\ KeyOf(f, lease[p].id) \in DOMAIN Registry(f)
                            => Registry(f)[KeyOf(f, lease[p].id)].pool_id = lease[p].conn.pool_id)

\* Two concurrent leases of one key that had no entry both hold a connection
\* of the one pool created for it.
C31_Witness ==
    \E p, q \in Procs :
        /\ p # q
        /\ lease[p].family = lease[q].family
        /\ KeyOf(lease[p].family, lease[p].id) = KeyOf(lease[q].family, lease[q].id)
        /\ pc[p] = "pool_leased" /\ pc[q] = "pool_leased"
        /\ lease[p].conn_state = "leased" /\ lease[q].conn_state = "leased"
        /\ lease[p].conn.pool_id = lease[q].conn.pool_id

\* C32: no exception leaves get_connection / get_client, and a lease that
\* returns a connection (client) returns a live one, of a pool that is open
\* and registered under the lease's key at that moment.
C32_LeaseTotalUnderReaping ==
    /\ [](\A p \in Procs : pc[p] # "pool_raised")
    /\ [][\A p \in Procs :
            (pc[p] # "pool_leased" /\ pc'[p] = "pool_leased") =>
                LET f == lease[p].family
                    key == KeyOf(f, lease[p].id)
                IN  /\ lease'[p].conn_state = "leased"
                    /\ key \in DOMAIN Registry(f)
                    /\ ~Registry(f)[key].closed
                    /\ Registry(f)[key].pool_id = lease'[p].conn.pool_id
         ]_vars

\* C33: the cleanup thread of a registry is never ended by one of its passes:
\* whatever leases, releases and passes have run, it is asleep until the next
\* pass or inside a pass.
C33_ReaperKeepsRunning ==
    \A f \in FamilyNames : sweeper[f].pc \in {"sleeping", "scanning", "locking", "closing", "deleting"}

\* C34: a call of create_token, update_token or update_token_usage that has
\* returned holds no connection of the auth database: whichever way it ended,
\* it gave back the connection it leased.
C34_NoConnectionLeak ==
    \A p \in Procs :
        /\ pc[p] \in {"create_returned", "update_returned"} => token_op[p].conn = "none"
        /\ pc[p] = "usage_returned" => usage[p].conn = "none"

\* The write request was validated with token t, passed the quota pre-check and
\* reached the backend handler.
ReachedHandler(p, t) ==
    /\ CountedWrite(p)
    /\ <<req[p].path, req[p].method>> \in Routes
    /\ token_info[p] # NoInfo /\ token_info[p].token_id = t
    /\ \/ pc[p] \in {"handler", "after_call_next", "usage_returned"} \cup UsageStages
       \/ pc[p] = "done" /\ response[p] \in {"ok", "error_envelope"}

\* C35 as claimed: of the write requests bearing a limited token that had
\* remaining_calls = R at the start, at most R have passed the pre-check and
\* reached the handler (no update tops the token up).
C35_NoOverspend ==
    \A t \in TokenIds :
        initial_tokens[t].token_type = "limited" =>
            Cardinality({p \in Procs : ReachedHandler(p, t)})
                <= Get(initial_tokens[t].remaining_calls)

\* C35 amended: the pre-check is a snapshot. A write request bearing a limited
\* token passes it only at a moment when the committed remaining_calls of the
\* token is greater than 0, so none passes once the calls are used up; only
\* requests that pass before the consume of earlier ones can exceed R.
C35_PreCheckSnapshot ==
    [][\A p \in Procs :
        (/\ pc[p] = "start" /\ pc'[p] = "limiter"
         /\ CountedWrite(p)
         /\ token_info'[p].token_type = "limited")
            => /\ ~IsNull(api_tokens[token_info'[p].token_id].remaining_calls)
               /\ Get(api_tokens[token_info'[p].token_id].remaining_calls) > 0
      ]_vars

\* Two write requests bearing a token with one call left have both passed the
\* pre-check, reached the handler and been consumed; the token is at 0.
C35_Witness ==
    \E t \in TokenIds : \E p, q \in Procs :
        /\ p # q
        /\ initial_tokens[t].token_type = "limited"
        /\ Get(initial_tokens[t].remaining_calls) = 1
        /\ ReachedHandler(p, t) /\ ReachedHandler(q, t)
        /\ pc[p] = "done" /\ pc[q] = "done"
        /\ result[p] /\ result[q]
        /\ Get(api_tokens[t].remaining_calls) = 0

\* The answers of call_next that the endpoint itself returned, the only ones
\* after which the backend command can have been executed: its success
\* envelope, or an error envelope (returned for a failed command, and also for
\* the endpoint's own parameter checks and a failed lease).
CommandOutcomes == {"ok", "error_envelope"}

\* C36 (no consume for work that never executed): remaining_calls of a token
\* is lowered only by the consume of a write request whose endpoint ran: not
\* of one that was cancelled or raised, nor of one that request validation (or
\* the router) answered before the endpoint was called.
C36_NoConsumeWithoutExecution ==
    [][\A p \in Procs :
          (/\ pc[p] = "usage_commit" /\ pc'[p] = "usage_returned"
           /\ api_tokens' # api_tokens)
              => response[p] \in CommandOutcomes
      ]_vars

\* The part of C36 that the gateway keeps: a request whose call_next raised or
\* was cancelled never calls update_token_usage.
C36_CancelledNotConsumed ==
    \A p \in Procs :
        (pc[p] \in UsageStages \cup {"usage_returned"})
            => response[p] \notin {"exception", "cancelled"}

\* C37 (logged status matches the outcome): the usage-log row a write request
\* commits has status "error" exactly when its endpoint returned an error
\* envelope (errCode # 0), and "success" exactly when it returned the success
\* envelope.
C37_LoggedStatusMatchesOutcome ==
    [][\A p \in Procs :
          (/\ pc[p] = "usage_commit" /\ pc'[p] = "usage_returned" /\ result'[p]
           /\ response[p] \in CommandOutcomes)
              => /\ usage[p].write.log # <<>>
                 /\ usage[p].write.log[1].status = "error" <=> response[p] = "error_envelope"
                 /\ usage[p].write.log[1].status = "success" <=> response[p] = "ok"
      ]_vars

\* --------------------------------------------- concurrent adds and consumes
\* Calls of update_token with operation "add" and calls of update_token_usage,
\* concurrently, for any tokens (one representative of each multiset of calls).
AddValues == 1..2
QuotaCalls ==
    {[kind |-> "add", token_id |-> t, calls_value |-> v] : t \in TokenIds, v \in AddValues}
    \cup {[kind |-> "consume", token_id |-> t, calls_value |-> 0] : t \in TokenIds}
QuotaCallSeq == SeqOf(QuotaCalls)

InitQuota ==
    /\ InitLedgerTables
    /\ InitNoRequests
    /\ InitAdmissionState
    /\ InitRegistry /\ InitNoLeases /\ InitNoClient /\ InitNoRetention
    /\ result = [p \in Procs |-> FALSE]
    /\ \E k \in [Procs -> 1..Len(QuotaCallSeq)] :
          /\ \A p, q \in Procs : p < q => k[p] <= k[q]
          /\ token_op = [p \in Procs |->
                IF QuotaCallSeq[k[p]].kind = "add"
                THEN UpdateArgs(api_tokens[QuotaCallSeq[k[p]].token_id].ws_id, "add",
                                Val(QuotaCallSeq[k[p]].calls_value))
                ELSE NoOp]
          /\ usage = [p \in Procs |->
                IF QuotaCallSeq[k[p]].kind = "consume"
                THEN UsageArgs(QuotaCallSeq[k[p]].token_id, StatusOfCaller(p))
                ELSE NoUsage]
          /\ pc = [p \in Procs |->
                IF QuotaCallSeq[k[p]].kind = "add" THEN "update_call" ELSE "usage_call"]

NextQuota ==
    \E p \in Procs :
        \/ update_token(p)
        \/ update_token_usage(p)

SpecQuota == InitQuota /\ [][NextQuota]_vars

\* The calls on token t that have committed and returned success.
CommittedAdds(t) ==
    {p \in Procs : /\ pc[p] = "update_returned" /\ token_op[p].code = "ok"
                   /\ token_op[p].token_id = t}
CommittedConsumes(t) ==
    {p \in Procs : pc[p] = "usage_returned" /\ result[p] /\ usage[p].token_id = t}

RECURSIVE SumOfAdds(_)
SumOfAdds(S) ==
    IF S = {} THEN 0
    ELSE LET p == CHOOSE q \in S : TRUE
         IN  Get(token_op[p].calls_value) + SumOfAdds(S \ {p})

\* remaining_calls after the calls of S, run one at a time in any order, on a
\* row whose remaining_calls is r.
RECURSIVE SequentialResults(_, _)
SequentialResults(r, S) ==
    IF S = {} THEN {r}
    ELSE UNION {SequentialResults(
                    IF token_op[p].op = "update"
                    THEN SqlPlus(Coalesce(r, 0), Get(token_op[p].calls_value))
                    ELSE Greatest(SqlMinus(r, 1), Val(0)),
                    S \ {p}) : p \in S}

\* C38 (no lost quota update): for a token that is limited at the start, with
\* update(add, x), update(add, y) and consume calls running concurrently, the
\* committed total_calls is the initial one plus the values of all adds that
\* succeeded, and the committed remaining_calls is what the calls that
\* succeeded give when run one at a time in some order.
C38_NoLostQuotaUpdate ==
    \A t \in TokenIds :
        initial_tokens[t].token_type = "limited" =>
            /\ api_tokens[t].total_calls =
                  SqlPlus(Coalesce(initial_tokens[t].total_calls, 0),
                          SumOfAdds(CommittedAdds(t)))
            /\ api_tokens[t].remaining_calls \in
                  SequentialResults(initial_tokens[t].remaining_calls,
                                    CommittedAdds(t) \cup CommittedConsumes(t))

\* Two adds and a consume on the same limited token, which had no calls left,
\* have all succeeded, and the consume was not the first to commit.
C38_Witness ==
    \E t \in TokenIds :
        /\ initial_tokens[t].token_type = "limited"
        /\ initial_tokens[t].remaining_calls = Val(0)
        /\ Cardinality(CommittedAdds(t)) = 2
        /\ Cardinality(CommittedConsumes(t)) = 1
        /\ Get(api_tokens[t].remaining_calls) = SumOfAdds(CommittedAdds(t)) - 1

\* A step of the update_token_usage call of process p.
ConsumeStep(p) == pc[p] \in UsageStages /\ pc'[p] # pc[p]

\* C39 (consume frame): a step of update_token_usage changes, in api_tokens,
\* at most remaining_calls of the token it addresses (updated_at is not a
\* column of the model): total_calls, token_type, is_active, ws_id and
\* access_token of that token and every other token stay as they are, and no
\* row appears or disappears; it leaves every existing log row in place, and
\* adds exactly one row, for the addressed token, when it commits and none
\* otherwise.
C39_ConsumeFrame ==
    [][\A p \in Procs :
          ConsumeStep(p) =>
              LET committed == pc[p] = "usage_commit" /\ result'[p] IN
              /\ DOMAIN api_tokens' = DOMAIN api_tokens
              /\ \A t \in DOMAIN api_tokens :
                    /\ t # usage[p].token_id => api_tokens'[t] = api_tokens[t]
                    /\ api_tokens'[t] =
                          [api_tokens[t] EXCEPT
                              !.remaining_calls = api_tokens'[t].remaining_calls]
              /\ token_usage_logs \sqsubseteq token_usage_logs'
              /\ BagCardinality(token_usage_logs') =
                    BagCardinality(token_usage_logs) + (IF committed THEN 1 ELSE 0)
              /\ committed =>
                    \E row \in BagToSet(token_usage_logs') :
                        /\ row.token_id = usage[p].token_id
                        /\ token_usage_logs' = token_usage_logs (+) SetToBag({row})
      ]_vars

\* A consume of a limited token has committed while no add on it has: one call
\* fewer, the same total_calls, one log row.
C39_Witness ==
    \E t \in TokenIds :
        /\ initial_tokens[t].token_type = "limited"
        /\ Cardinality(CommittedConsumes(t)) = 1 /\ CommittedAdds(t) = {}
        /\ Get(api_tokens[t].remaining_calls) = Get(initial_tokens[t].remaining_calls) - 1
        /\ api_tokens[t].total_calls = initial_tokens[t].total_calls
        /\ LogCount(t) = 1

\* ------------------------------------------------ admission under fairness
\* The admission control with the scheduling the event loop provides: a task
\* whose future has its result is run (limiter_resume), and, as the premise of
\* the liveness property, a request that holds a permit finishes call_next
\* (limiter_exit).
FairAdmission ==
    \A p \in Procs : WF_vars(limiter_resume(p)) /\ WF_vars(limiter_exit(p))
SpecAdmissionFair == InitAdmission /\ [][NextAdmission]_vars /\ FairAdmission

\* Request q has the same limiter as request p, and holds one of its permits
\* or waits for one.
SameFamilyAhead(p, q) ==
    /\ q # p
    /\ LimiterOf(req[q].path) = LimiterOf(req[p].path)
    /\ pc[q] \in {"handler", "waiting"}

\* C40 (permit liveness): every request waiting for a permit acquires it
\* (or is cancelled while it waits), given that every holder of a permit
\* finishes its handler; and a request waits, with no permit handed to it, only
\* while another request of its own limiter holds a permit or waits: requests
\* of the other backend family never make it wait.
C40_PermitLiveness ==
    /\ \A p \in Procs :
          (pc[p] = "waiting") ~> (pc[p] = "handler" \/ response[p] = "cancelled")
    /\ [](\A p \in Procs :
            (pc[p] = "waiting" /\ p \notin semaphores[LimiterOf(req[p].path)].woken)
                => \E q \in Procs : SameFamilyAhead(p, q))

\* A request has been handed the permit that a finished request of its
\* limiter released, while a request of the other backend family runs its
\* handler.
C40_Witness ==
    \E p, q, r \in Procs :
        /\ pc[p] = "waiting" /\ p \in semaphores[LimiterOf(req[p].path)].woken
        /\ q # p /\ LimiterOf(req[q].path) = LimiterOf(req[p].path)
        /\ pc[q] = "after_call_next"
        /\ LimiterOf(req[p].path) \in {"postgresql_semaphore", "mongodb_semaphore"}
        /\ LimiterOf(req[r].path) \in {"postgresql_semaphore", "mongodb_semaphore"}
        /\ LimiterOf(req[r].path) # LimiterOf(req[p].path)
        /\ pc[r] = "handler"
====
